---- MODULE Spec2Model ----
(***************************************************************************)
(* A model of the secondbrain server: the save_page / process_url          *)
(* handlers of server/app.py (start call, poll loop, persistence), the     *)
(* SavedPage table of server/App/models.py, the read-only views, and the   *)
(* pure text helpers of server/mcp_server.py.                              *)
(*                                                                         *)
(* Python values are modelled as tagged records (JSON values); a Python    *)
(* str is the sequence of its characters. A printable ASCII character is   *)
(* the one-character string, tab, line feed, carriage return and form feed *)
(* are "\t", "\n", "\r" and "\f", and every other character is named by    *)
(* its code point: "U+0130" is the capital I with a dot above.             *)
(***************************************************************************)
EXTENDS Integers, Sequences, FiniteSets, TLC

VARIABLES
    rows,          \* the rows of the saved_page table, in insertion order
    schema,        \* its columns and the constraints on saved_item_id
    fix_pc,        \* position of the run of fix_db.py ("idle": none is running)
    column_names,  \* local column_names of fix_database
    now,           \* the clock read by datetime.utcnow / time.time
    uuidCtr,       \* number of uuid4() values drawn so far
    apiKey,        \* os.getenv('GUMLOOP_API_KEY') is set
    savedItemCfg,  \* GUMLOOP_SAVED_ITEM_ID is set
    claude,        \* mcp_server.claude_client is not None
    reqs,          \* number of save_page / process_url requests received so far
    pc,            \* position of the request being handled
    handler,       \* the handler that is running
    data,          \* request.get_json()
    start_response,\* local start_response: the answer of the start call
    start_data,    \* local start_data
    run_id,        \* local run_id
    attempt,       \* number of poll iterations begun (status calls made)
    result_data,   \* local result_data
    final_state,   \* local final_state
    got200,        \* some status call of this request returned HTTP 200
    get_response,  \* local get_response: the answer of the last status call
    last200,       \* the body of the last status answer with HTTP 200
    sleeps,        \* number of time.sleep calls made by this request
    startCalls,    \* number of start_pipeline calls made by this request
    rowsBefore,    \* number of rows this request has not written
    response,      \* what the handler returned
    x_in,          \* input of the pure function under check
    x_out,         \* its result
    x_op,          \* the function applied ("none" before the call)
    x_read         \* the rows the function read from the table

appvars == <<rows, now, uuidCtr, apiKey, savedItemCfg, claude, reqs, pc, handler,
             data, start_response, start_data, run_id, attempt, result_data,
             final_state, got200, get_response, last200, sleeps, startCalls,
             rowsBefore, response>>
dbvars == <<schema, fix_pc, column_names>>
purevars == <<x_in, x_out, x_op, x_read>>
vars == <<appvars, dbvars, purevars>>

-----------------------------------------------------------------------------
(* Bounds of the model *)

\* save_page / process_url requests per behaviour
MaxRequests == 2
\* elements of a generated list, entries of a generated dict
MaxItems == 2
\* characters of a text handed to the snippet functions; max_length ranges
\* over 0..MaxText
MaxText == 4
\* rows of the table a search runs over
MaxPages == 2
\* rows of the table the keyword pre-filter ranks
MaxRanked == 17
\* rows other threads commit while a search waits for the LLM
MaxCommits == 1

-----------------------------------------------------------------------------
(* Python / JSON values *)

JNull == [t |-> "null"]
JBool(b) == [t |-> "bool", b |-> b]
JNum(n) == [t |-> "num", n |-> n]
JStr(s) == [t |-> "str", s |-> s]
JList(xs) == [t |-> "list", xs |-> xs]
\* a dict is its items in insertion order: a sequence of <<key, value>>
JDict(kv) == [t |-> "dict", kv |-> kv]
\* an exception raised instead of a value
Raised(e) == [t |-> "raise", exc |-> e]

\* Python truthiness: `if x`, `not x`
Truthy(j) ==
    CASE j.t = "null" -> FALSE
      [] j.t = "bool" -> j.b
      [] j.t = "num"  -> j.n # 0
      [] j.t = "str"  -> j.s # <<>>
      [] j.t = "list" -> j.xs # <<>>
      [] j.t = "dict" -> j.kv # <<>>
      [] OTHER -> TRUE

\* `key in d` for a dict d
Has(d, k) == \E i \in 1..Len(d.kv) : d.kv[i][1] = k
\* d[key]
Item(d, k) == d.kv[CHOOSE i \in 1..Len(d.kv) : d.kv[i][1] = k][2]
\* d.get(key, default)
Get(d, k, default) == IF Has(d, k) THEN Item(d, k) ELSE default

DigitChar(n) ==
    CASE n = 0 -> "0" [] n = 1 -> "1" [] n = 2 -> "2" [] n = 3 -> "3" [] n = 4 -> "4"
      [] n = 5 -> "5" [] n = 6 -> "6" [] n = 7 -> "7" [] n = 8 -> "8" [] n = 9 -> "9"

RECURSIVE IntStr(_)
\* str(n) for a non-negative int
IntStr(n) == IF n < 10 THEN <<DigitChar(n)>> ELSE IntStr(n \div 10) \o <<DigitChar(n % 10)>>

\* the JSON spelling of a scalar
PyStrJson(j) ==
    CASE j.t = "num"  -> IntStr(j.n)
      [] j.t = "bool" -> IF j.b THEN <<"t", "r", "u", "e">> ELSE <<"f", "a", "l", "s", "e">>
      [] j.t = "null" -> <<"n", "u", "l", "l">>

\* str(x) for x neither str, dict nor list
PyStr(j) ==
    CASE j.t = "num"  -> IntStr(j.n)
      [] j.t = "bool" -> IF j.b THEN <<"T", "r", "u", "e">> ELSE <<"F", "a", "l", "s", "e">>
      [] j.t = "null" -> <<"N", "o", "n", "e">>

RECURSIVE JoinStrs(_)
\* " ".join(parts) for parts that are all str
JoinStrs(parts) ==
    IF parts = <<>> THEN <<>>
    ELSE IF Len(parts) = 1 THEN parts[1].s
    ELSE parts[1].s \o <<" ">> \o JoinStrs(Tail(parts))

\* " ".join(parts): TypeError unless every part is a str; an exception raised
\* while a part was computed propagates
PyJoin(parts) ==
    IF \E i \in 1..Len(parts) : parts[i].t = "raise"
    THEN parts[CHOOSE i \in 1..Len(parts) :
                 /\ parts[i].t = "raise"
                 /\ \A j \in 1..(i - 1) : parts[j].t # "raise"]
    ELSE IF \E i \in 1..Len(parts) : parts[i].t # "str"
    THEN Raised("TypeError")
    ELSE JStr(JoinStrs(parts))

-----------------------------------------------------------------------------
(* mcp_server.extract_text_content *)

\* the fixed probe order of the known content fields
KnownKeysContentLast == <<"website_content", "output", "extracted_content", "text", "content">>
KnownKeys == <<"website_content", "output", "content", "extracted_content", "text">>

\* the first known key that is present, whatever its value
FirstKnownPresent(d) ==
    LET hits == {i \in 1..Len(KnownKeys) : Has(d, KnownKeys[i])}
    IN IF hits = {} THEN 0 ELSE CHOOSE i \in hits : \A j \in hits : i <= j

\* the first known key that is present with a truthy value, 0 when there is none
FirstKnown(d) ==
    LET hits == {i \in 1..Len(KnownKeys) :
                    Has(d, KnownKeys[i]) /\ Truthy(Item(d, KnownKeys[i]))}
    IN IF hits = {} THEN 0 ELSE CHOOSE i \in hits : \A j \in hits : i <= j

\* which values of a dict without known content are collected into text_parts:
\* "str" as they are, "rec" through a recursive call, "skip" not at all
PartKindAll(v) ==
    CASE v.t = "str" -> "str"
      [] v.t \in {"dict", "list"} -> "rec"
      [] OTHER -> "str"
PartKind(v) ==
    CASE v.t = "str" -> "str"
      [] v.t \in {"dict", "list"} -> "rec"
      [] OTHER -> "skip"

RECURSIVE extract_text_content(_)
RECURSIVE DictParts(_)
RECURSIVE ListParts(_)

RECURSIVE DictPartsReversed(_)
\* text_parts collected from the last item to the first
DictPartsReversed(kv) ==
    IF kv = <<>> THEN <<>>
    ELSE LET v == kv[1][2]
             k == PartKind(v)
         IN DictPartsReversed(Tail(kv)) \o
            (CASE k = "str" -> <<v>>
               [] k = "rec" -> <<extract_text_content(v)>>
               [] OTHER -> <<>>)

\* text_parts of the dict branch, for the items kv
DictParts(kv) ==
    IF kv = <<>> THEN <<>>
    ELSE LET v == kv[1][2]
             k == PartKind(v)
         IN (CASE k = "str" -> <<v>>
               [] k = "rec" -> <<extract_text_content(v)>>
               [] OTHER -> <<>>) \o DictParts(Tail(kv))

\* text_parts of the list branch
ListParts(xs) ==
    IF xs = <<>> THEN <<>>
    ELSE <<extract_text_content(xs[1])>> \o ListParts(Tail(xs))

extract_text_content(content) ==
    IF ~Truthy(content) THEN JStr(<<>>)
    ELSE CASE content.t = "str" -> content
           [] content.t = "dict" ->
                IF FirstKnown(content) # 0
                THEN extract_text_content(Item(content, KnownKeys[FirstKnown(content)]))
                ELSE PyJoin(DictParts(content.kv))
           [] content.t = "list" -> PyJoin(ListParts(content.xs))
           [] OTHER -> JStr(PyStr(content))

-----------------------------------------------------------------------------
(* Python str operations *)

UpperLetters == <<"A", "B", "C", "D", "E", "F", "G", "H", "I", "J", "K", "L", "M",
                  "N", "O", "P", "Q", "R", "S", "T", "U", "V", "W", "X", "Y", "Z">>
LowerLetters == <<"a", "b", "c", "d", "e", "f", "g", "h", "i", "j", "k", "l", "m",
                  "n", "o", "p", "q", "r", "s", "t", "u", "v", "w", "x", "y", "z">>

\* the lowercase form of an ASCII letter, any other character as it is
AsciiLowerChar(c) ==
    IF \E i \in 1..Len(UpperLetters) : UpperLetters[i] = c
    THEN LowerLetters[CHOOSE i \in 1..Len(UpperLetters) : UpperLetters[i] = c]
    ELSE c

\* the capital I with a dot above and the combining dot above
DottedCapitalI == "U+0130"
CombiningDot == "U+0307"

\* c.lower(): the characters str.lower() puts for c. 'I with a dot above' is
\* the one character of Unicode whose lowercase form is longer than itself: 'i'
\* and the combining dot
LowerChar(c) ==
    IF c = DottedCapitalI THEN <<"i", CombiningDot>> ELSE <<AsciiLowerChar(c)>>

RECURSIVE Lower(_)
\* s.lower(): the lowercase forms of the characters of s, one after the
\* other; the result is longer than s when s holds 'I with a dot above'
Lower(s) == IF s = <<>> THEN <<>> ELSE LowerChar(s[1]) \o Lower(Tail(s))

\* the case folding of SQLite's LIKE: the 26 ASCII letters only
AsciiLower(s) == [i \in 1..Len(s) |-> AsciiLowerChar(s[i])]

\* the case folding of re.IGNORECASE, character by character: the simple
\* lowercase form, which is 'i' for 'I with a dot above'
RegexFold(c) == IF c = DottedCapitalI THEN "i" ELSE AsciiLowerChar(c)

Min2(a, b) == IF a <= b THEN a ELSE b
Max2(a, b) == IF a >= b THEN a ELSE b

\* s[a:b] for 0 <= a, 0 <= b
PySlice(s, a, b) == SubSeq(s, Min2(a, Len(s)) + 1, Min2(b, Len(s)))

\* a start index handed to find / rfind: a negative one counts from the end
PyStart(n, len) == IF n < 0 THEN Max2(0, n + len) ELSE n

\* s.find(sub, start): the lowest 0-based index of sub at or after start, else -1
Find(s, sub, start) ==
    LET from == PyStart(start, Len(s))
        hits == {i \in from..(Len(s) - Len(sub)) : SubSeq(s, i + 1, i + Len(sub)) = sub}
    IN IF hits = {} THEN -1 ELSE CHOOSE i \in hits : \A j \in hits : i <= j

\* s.rfind(sub, 0, end): the highest 0-based index of sub inside s[0:end], else -1
RFind(s, sub, end) ==
    LET lim == Min2(end, Len(s))
        hits == {i \in 0..(lim - Len(sub)) : SubSeq(s, i + 1, i + Len(sub)) = sub}
    IN IF hits = {} THEN -1 ELSE CHOOSE i \in hits : \A j \in hits : i >= j

\* `sub in s`
Contains(s, sub) == Find(s, sub, 0) # -1

Dots == <<".", ".", ".">>
Stars == <<"*", "*">>

\* the characters of a dict key
KeyText(k) ==
    CASE k = "website_content" -> <<"w", "e", "b", "s", "i", "t", "e", "_", "c", "o", "n", "t", "e", "n", "t">>
      [] k = "output" -> <<"o", "u", "t", "p", "u", "t">>
      [] k = "content" -> <<"c", "o", "n", "t", "e", "n", "t">>
      [] k = "extracted_content" -> <<"e", "x", "t", "r", "a", "c", "t", "e", "d", "_", "c", "o", "n", "t", "e", "n", "t">>
      [] k = "text" -> <<"t", "e", "x", "t">>
      [] k = "title" -> <<"t", "i", "t", "l", "e">>
      [] k = "error" -> <<"e", "r", "r", "o", "r">>
      [] k = "message" -> <<"m", "e", "s", "s", "a", "g", "e">>
      [] k = "state" -> <<"s", "t", "a", "t", "e">>
      [] k = "run_id" -> <<"r", "u", "n", "_", "i", "d">>
      [] k = "outputs" -> <<"o", "u", "t", "p", "u", "t", "s">>

RECURSIVE JoinWith(_, _)
\* sep.join(parts) for sequences of characters
JoinWith(parts, sep) ==
    IF parts = <<>> THEN <<>>
    ELSE IF Len(parts) = 1 THEN parts[1]
    ELSE parts[1] \o sep \o JoinWith(Tail(parts), sep)

\* the 29 characters str.split() and str.strip() take for whitespace (those
\* for which str.isspace() holds): tab, line feed, vertical tab, form feed,
\* carriage return, the separators U+001C to U+001F, the blank, U+0085,
\* U+00A0, U+1680, U+2000 to U+200A, U+2028, U+2029, U+202F, U+205F, U+3000
Whitespace ==
    {"\t", "\n", "U+000B", "\f", "\r", "U+001C", "U+001D", "U+001E", "U+001F", " ",
     "U+0085", "U+00A0", "U+1680",
     "U+2000", "U+2001", "U+2002", "U+2003", "U+2004", "U+2005", "U+2006", "U+2007",
     "U+2008", "U+2009", "U+200A",
     "U+2028", "U+2029", "U+202F", "U+205F", "U+3000"}

\* the four hexadecimal digits of the code point of a character that is
\* named by it, as json.dumps and repr() write them
HexDigits(c) ==
    CASE c = "U+000B" -> <<"0", "0", "0", "b">>
      [] c = "U+001C" -> <<"0", "0", "1", "c">>
      [] c = "U+001D" -> <<"0", "0", "1", "d">>
      [] c = "U+001E" -> <<"0", "0", "1", "e">>
      [] c = "U+001F" -> <<"0", "0", "1", "f">>
      [] c = "U+0085" -> <<"0", "0", "8", "5">>
      [] c = "U+00A0" -> <<"0", "0", "a", "0">>
      [] c = "U+1680" -> <<"1", "6", "8", "0">>
      [] c = "U+2000" -> <<"2", "0", "0", "0">>
      [] c = "U+2001" -> <<"2", "0", "0", "1">>
      [] c = "U+2002" -> <<"2", "0", "0", "2">>
      [] c = "U+2003" -> <<"2", "0", "0", "3">>
      [] c = "U+2004" -> <<"2", "0", "0", "4">>
      [] c = "U+2005" -> <<"2", "0", "0", "5">>
      [] c = "U+2006" -> <<"2", "0", "0", "6">>
      [] c = "U+2007" -> <<"2", "0", "0", "7">>
      [] c = "U+2008" -> <<"2", "0", "0", "8">>
      [] c = "U+2009" -> <<"2", "0", "0", "9">>
      [] c = "U+200A" -> <<"2", "0", "0", "a">>
      [] c = "U+2028" -> <<"2", "0", "2", "8">>
      [] c = "U+2029" -> <<"2", "0", "2", "9">>
      [] c = "U+202F" -> <<"2", "0", "2", "f">>
      [] c = "U+205F" -> <<"2", "0", "5", "f">>
      [] c = "U+3000" -> <<"3", "0", "0", "0">>
      [] c = "U+0130" -> <<"0", "1", "3", "0">>
      [] c = "U+0307" -> <<"0", "3", "0", "7">>

\* the characters named by their code point
Named == (Whitespace \ {" ", "\t", "\n", "\r", "\f"}) \cup {DottedCapitalI, CombiningDot}

\* one character of a str as json.dumps writes it (ensure_ascii): the quote
\* and the backslash behind a backslash, the short escapes, \uXXXX for every
\* other control character and every character that is not ASCII
JsonChar(c) ==
    CASE c = "\"" -> <<"\\", "\"">>
      [] c = "\\" -> <<"\\", "\\">>
      [] c = "\n" -> <<"\\", "n">>
      [] c = "\r" -> <<"\\", "r">>
      [] c = "\t" -> <<"\\", "t">>
      [] c = "\f" -> <<"\\", "f">>
      [] c \in Named -> <<"\\", "u">> \o HexDigits(c)
      [] OTHER -> <<c>>

RECURSIVE JsonChars(_)
JsonChars(s) == IF s = <<>> THEN <<>> ELSE JsonChar(s[1]) \o JsonChars(Tail(s))

RECURSIVE JsonDumps(_)
\* json.dumps(j) with the default separators
JsonDumps(j) ==
    CASE j.t = "null" -> <<"n", "u", "l", "l">>
      [] j.t = "bool" -> IF j.b THEN <<"t", "r", "u", "e">> ELSE <<"f", "a", "l", "s", "e">>
      [] j.t = "num"  -> IntStr(j.n)
      [] j.t = "str"  -> <<"\"">> \o JsonChars(j.s) \o <<"\"">>
      [] j.t = "list" ->
           <<"[">> \o JoinWith([i \in 1..Len(j.xs) |-> JsonDumps(j.xs[i])], <<",", " ">>) \o <<"]">>
      [] j.t = "dict" ->
           <<"{">> \o JoinWith([i \in 1..Len(j.kv) |->
                                   <<"\"">> \o KeyText(j.kv[i][1]) \o <<"\"", ":", " ">>
                                   \o JsonDumps(j.kv[i][2])], <<",", " ">>) \o <<"}">>

\* the quote repr() puts around a str: the double quote when the str holds a
\* single quote and no double quote
ReprQuote(s) ==
    IF (\E i \in 1..Len(s) : s[i] = "'") /\ ~(\E i \in 1..Len(s) : s[i] = "\"")
    THEN "\"" ELSE "'"

\* one character of a str as repr() writes it between the quotes q: the
\* quote and the backslash behind a backslash, \t, \n, \r, and \xXX or \uXXXX
\* for every other character that is not printable (of the named characters
\* all but 'I with a dot above' and the combining dot)
ReprChar(c, q) ==
    CASE c = q -> <<"\\", q>>
      [] c = "\\" -> <<"\\", "\\">>
      [] c = "\n" -> <<"\\", "n">>
      [] c = "\r" -> <<"\\", "r">>
      [] c = "\t" -> <<"\\", "t">>
      [] c = "\f" -> <<"\\", "x", "0", "c">>
      [] c \in Named \ {DottedCapitalI, CombiningDot} ->
           IF SubSeq(HexDigits(c), 1, 2) = <<"0", "0">>
           THEN <<"\\", "x">> \o SubSeq(HexDigits(c), 3, 4)
           ELSE <<"\\", "u">> \o HexDigits(c)
      [] OTHER -> <<c>>

RECURSIVE ReprChars(_, _)
ReprChars(s, q) == IF s = <<>> THEN <<>> ELSE ReprChar(s[1], q) \o ReprChars(Tail(s), q)

RECURSIVE PyRepr(_)
\* str(x) of a list or dict and repr(x) of its elements
PyRepr(j) ==
    CASE j.t = "str"  -> <<ReprQuote(j.s)>> \o ReprChars(j.s, ReprQuote(j.s)) \o <<ReprQuote(j.s)>>
      [] j.t = "list" ->
           <<"[">> \o JoinWith([i \in 1..Len(j.xs) |-> PyRepr(j.xs[i])], <<",", " ">>) \o <<"]">>
      [] j.t = "dict" ->
           <<"{">> \o JoinWith([i \in 1..Len(j.kv) |->
                                   <<"'">> \o KeyText(j.kv[i][1]) \o <<"'", ":", " ">>
                                   \o PyRepr(j.kv[i][2])], <<",", " ">>) \o <<"}">>
      [] OTHER -> PyStr(j)

-----------------------------------------------------------------------------
(* mcp_server.extract_content_snippet and extract_content_snippet_advanced *)

\* default max_length of extract_content_snippet / extract_content_snippet_advanced
DefaultMaxLength == 200
DefaultMaxLengthAdvanced == 250
\* the look-back / look-ahead of the word boundary adjustment
WordBudget == 20

\* start_pos and end_pos of the window of max_length characters around query_pos
\* the window that is not moved back at the end of the text
WindowNoShift(text, query_pos, max_length) ==
    LET start0 == Max2(0, query_pos - (max_length \div 2))
    IN [start_pos |-> start0, end_pos |-> Min2(Len(text), start0 + max_length)]
Window(text, query_pos, max_length) ==
    LET start0 == Max2(0, query_pos - (max_length \div 2))
        end0 == Min2(Len(text), start0 + max_length)
    IN [start_pos |-> IF end0 = Len(text) THEN Max2(0, end0 - max_length) ELSE start0,
        end_pos |-> end0]

\* text[start_pos:end_pos] with "..." on each side that was cut
Ellipsized(text, start_pos, end_pos) ==
    (IF start_pos > 0 THEN Dots ELSE <<>>)
    \o PySlice(text, start_pos, end_pos)
    \o (IF end_pos < Len(text) THEN Dots ELSE <<>>)

\* the answer when the query does not occur: the start of the text
HeadOnly(text, max_length) == PySlice(text, 0, max_length)
HeadDots(text, max_length) == PySlice(text, 0, max_length) \o Dots

\* text_content of extract_content_snippet for a truthy content
TextContent(content) ==
    CASE content.t = "dict" ->
           IF FirstKnown(content) # 0
           THEN Item(content, KnownKeys[FirstKnown(content)])
           ELSE JStr(JsonDumps(content))
      [] content.t = "str" -> content
      [] OTHER -> JStr(PyRepr(content))

extract_content_snippet(content, query, max_length) ==
    IF ~Truthy(content) THEN JNull
    ELSE LET tc == TextContent(content)
         IN IF tc.t # "str" THEN Raised("AttributeError")
            ELSE LET text_content == tc.s
                     query_pos == Find(Lower(text_content), Lower(query), 0)
                     w == Window(text_content, query_pos, max_length)
                 IN IF query_pos = -1 THEN JStr(HeadDots(text_content, max_length))
                    ELSE JStr(Ellipsized(text_content, w.start_pos, w.end_pos))

\* the word boundary adjustment of the advanced variant
WordAligned(text, w) ==
    LET back == RFind(text, <<" ">>, w.start_pos + WordBudget)
        start_pos == IF w.start_pos > 0 /\ back >= 0 THEN back + 1 ELSE w.start_pos
        ahead == Find(text, <<" ">>, w.end_pos - WordBudget)
        end_pos == IF w.end_pos < Len(text) /\ ahead >= 0 THEN ahead ELSE w.end_pos
    IN [start_pos |-> start_pos, end_pos |-> end_pos]

RECURSIVE HighlightEmpty(_)
\* re.sub("()", "**\\1**", s): the empty pattern matches before every
\* character and at the end
HighlightEmpty(s) ==
    IF s = <<>> THEN Stars \o Stars
    ELSE Stars \o Stars \o <<s[1]>> \o HighlightEmpty(Tail(s))

\* the escaped query matches s under re.IGNORECASE: character by character,
\* without regard to case
RegexMatches(s, query) ==
    /\ Len(s) = Len(query)
    /\ \A i \in 1..Len(s) : RegexFold(s[i]) = RegexFold(query[i])

RECURSIVE HighlightFrom(_, _)
\* re.sub of a non-empty escaped query, re.IGNORECASE: the matches are taken
\* from left to right and do not overlap
HighlightFrom(s, query) ==
    IF Len(s) < Len(query) THEN s
    ELSE IF RegexMatches(SubSeq(s, 1, Len(query)), query)
    THEN Stars \o SubSeq(s, 1, Len(query)) \o Stars
         \o HighlightFrom(SubSeq(s, Len(query) + 1, Len(s)), query)
    ELSE <<s[1]>> \o HighlightFrom(Tail(s), query)

Highlight(s, query) == IF query = <<>> THEN HighlightEmpty(s) ELSE HighlightFrom(s, query)

\* content_text is a str
extract_content_snippet_advanced(content_text, query, max_length) ==
    IF ~Truthy(content_text) THEN JNull
    ELSE LET text == content_text.s
             query_pos == Find(Lower(text), Lower(query), 0)
             w == WordAligned(text, Window(text, query_pos, max_length))
         IN IF query_pos = -1 THEN JStr(HeadDots(text, max_length))
            ELSE JStr(Highlight(Ellipsized(text, w.start_pos, w.end_pos), query))

-----------------------------------------------------------------------------
(* mcp_server.get_all_saved_pages and the keyword pre-filter of              *)
(* conversational_search                                                     *)

\* content_text[:5000] of get_all_saved_pages
ContentCap == 5000
\* potential_matches[:15] and saved_pages[:10] of conversational_search
TopMatchesCap == 15
SampleCap == 10

\* the entry of get_all_saved_pages for one row
FormattedPage(row) ==
    LET content_text == extract_text_content(row.gumloop_data)
    IN [id |-> row.id, title |-> row.title, url |-> row.url, saved_at |-> row.saved_at,
        content_text |-> IF Truthy(content_text)
                         THEN JStr(PySlice(content_text.s, 0, ContentCap)) ELSE JNull]

get_all_saved_pages(rs) == [i \in 1..Len(rs) |-> FormattedPage(rs[i])]

RECURSIVE SplitFrom(_, _)
\* s.split(): the maximal runs of characters that are not whitespace; cur is
\* the run being read
SplitFrom(s, cur) ==
    IF s = <<>> THEN (IF cur = <<>> THEN <<>> ELSE <<cur>>)
    ELSE IF s[1] \in Whitespace
    THEN (IF cur = <<>> THEN <<>> ELSE <<cur>>) \o SplitFrom(Tail(s), <<>>)
    ELSE SplitFrom(Tail(s), Append(cur, s[1]))

Split(s) == SplitFrom(s, <<>>)

stopwords ==
    {<<"t", "h", "e">>, <<"a">>, <<"a", "n">>, <<"a", "n", "d">>, <<"o", "r">>,
     <<"b", "u", "t">>, <<"i", "s">>, <<"a", "r", "e">>, <<"w", "a", "s">>,
     <<"w", "e", "r", "e">>, <<"i", "n">>, <<"o", "n">>, <<"a", "t">>, <<"t", "o">>,
     <<"f", "o", "r">>, <<"w", "i", "t", "h">>, <<"b", "y">>,
     <<"a", "b", "o", "u", "t">>, <<"l", "i", "k", "e">>,
     <<"t", "h", "r", "o", "u", "g", "h">>, <<"o", "v", "e", "r">>,
     <<"b", "e", "f", "o", "r", "e">>, <<"b", "e", "t", "w", "e", "e", "n">>,
     <<"a", "f", "t", "e", "r">>, <<"f", "r", "o", "m">>, <<"u", "p">>,
     <<"d", "o", "w", "n">>, <<"d", "o">>, <<"d", "o", "e", "s">>, <<"d", "i", "d">>,
     <<"h", "a", "v", "e">>, <<"h", "a", "s">>, <<"h", "a", "d">>, <<"o", "f">>,
     <<"t", "h", "a", "t">>, <<"t", "h", "i", "s">>}

RECURSIVE Filter(_, _)
\* [word for word in words if word not in drop]
Filter(words, drop) ==
    IF words = <<>> THEN <<>>
    ELSE (IF words[1] \in drop THEN <<>> ELSE <<words[1]>>) \o Filter(Tail(words), drop)

\* filtered_query_words: the query's words without the stopwords, or all of
\* them when nothing else remains
filtered_query_words(query) ==
    LET query_words == Split(Lower(query))
        filtered == Filter(query_words, stopwords)
    IN IF filtered = <<>> THEN query_words ELSE filtered

\* the weight of a word found in the title / in the content
TitleWeight == 3
ContentWeight == 1

RECURSIVE ScoreWordsFlat(_, _, _)
ScoreWordsFlat(words, title_lower, content_lower) ==
    IF words = <<>> THEN 0
    ELSE (IF Contains(title_lower, words[1]) THEN ContentWeight ELSE 0)
         + (IF Contains(content_lower, words[1]) THEN ContentWeight ELSE 0)
         + ScoreWordsFlat(Tail(words), title_lower, content_lower)

RECURSIVE ScoreWords(_, _, _)
\* the score of a page: 3 for each word in the title, 1 for each in the content
ScoreWords(words, title_lower, content_lower) ==
    IF words = <<>> THEN 0
    ELSE (IF Contains(title_lower, words[1]) THEN TitleWeight ELSE 0)
         + (IF Contains(content_lower, words[1]) THEN ContentWeight ELSE 0)
         + ScoreWords(Tail(words), title_lower, content_lower)

\* the score of one page of get_all_saved_pages
KeywordScore(page, words) ==
    ScoreWords(words, Lower(page.title.s),
               IF Truthy(page.content_text) THEN Lower(page.content_text.s) ELSE <<>>)

RECURSIVE InsertDesc(_, _)
\* x, which preceded every element of sorted, put into its place
InsertDesc(x, sorted) ==
    IF sorted = <<>> THEN <<x>>
    ELSE IF sorted[1].score <= x.score THEN <<x>> \o sorted
    ELSE <<sorted[1]>> \o InsertDesc(x, Tail(sorted))

\* the matches left in corpus order
Unsorted(pages) == pages

RECURSIVE SortDesc(_)
\* list.sort(key=score, reverse=True): stable
SortDesc(pages) ==
    IF pages = <<>> THEN <<>> ELSE InsertDesc(pages[1], SortDesc(Tail(pages)))

RECURSIVE PotentialMatches(_, _)
\* the pages with a positive score, each with its score, in corpus order
PotentialMatches(saved_pages, words) ==
    IF saved_pages = <<>> THEN <<>>
    ELSE LET score == KeywordScore(saved_pages[1], words)
         IN (IF score > 0
             THEN <<[id |-> saved_pages[1].id, score |-> score]>> ELSE <<>>)
            \o PotentialMatches(Tail(saved_pages), words)

\* top_matches: the pages whose context is sent to the LLM
top_matches(query, saved_pages) ==
    LET ranked == SortDesc(PotentialMatches(saved_pages, filtered_query_words(query)))
        top == SubSeq(ranked, 1, Min2(Len(ranked), TopMatchesCap))
    IN IF top = <<>>
       THEN [i \in 1..Min2(Len(saved_pages), SampleCap) |->
                [id |-> saved_pages[i].id, score |-> 0]]
       ELSE top

-----------------------------------------------------------------------------
(* mcp_server.conversational_search *)

\* a text returned by a search function; context: the pages put into the
\* prompt, empty when no prompt was sent
TextAnswer(text, context) == [kind |-> "text", text |-> text, context |-> context]

ClaudeUnavailableText ==
    "Conversational search is not available because the Anthropic API key is not set. Please set the ANTHROPIC_API_KEY environment variable."
NoSavedPagesText == "I don't have any saved pages to search through."
SearchErrorText == "I encountered an error while searching through your saved pages: "
\* response.content[0].text: whatever the LLM answers
LlmText == "response.content[0].text"

\* the outcomes of claude_client.messages.create
LlmOutcomes == {"answers", "raises"}

\* hasClaude: claude_client is set; llm: the outcome of messages.create
conversational_search(query, rs, hasClaude, llm) ==
    IF ~hasClaude THEN TextAnswer(ClaudeUnavailableText, <<>>)
    ELSE LET saved_pages == get_all_saved_pages(rs)
         IN IF saved_pages = <<>> THEN TextAnswer(NoSavedPagesText, <<>>)
            ELSE IF llm = "raises"
            THEN TextAnswer(SearchErrorText, top_matches(query, saved_pages))
            ELSE TextAnswer(LlmText, top_matches(query, saved_pages))

-----------------------------------------------------------------------------
(* mcp_server.search_database and advanced_search_database *)

\* a message: its text with the number formatted into it (0 when there is none)
Message(text, n) == [text |-> text, n |-> n]

\* {"message": ..., "items": [...]}
ResultObject(message, items) == [kind |-> "result", message |-> message, items |-> items]

NoResultsFound == Message("No results found", 0)
NoSavedPagesFound == Message("No saved pages found", 0)
FoundResults(n) == Message("Found {len(results)} results", n)

\* SavedPage.title.like(f'%{query}%') in SQLite, for a query without % and _:
\* the title contains the query, ASCII letters compared without case
TitleLike(row, query) == Contains(AsciiLower(row.title.s), AsciiLower(query))

\* SavedPage.gumloop_data.like(f'%{query}%') on the stored JSON text.
\* dumped: the pattern is bound through JSONType.process_bind_param, that is
\* json.dumps('%query%'), a text in double quotes; otherwise it is bound as it is
DataLike(row, query, dumped) ==
    LET stored == JsonDumps(row.gumloop_data)
        n == Len(stored)
    IN /\ row.gumloop_data # JNull
       /\ IF dumped
          THEN /\ n >= 2 /\ stored[1] = "\"" /\ stored[n] = "\""
               /\ Contains(AsciiLower(SubSeq(stored, 2, n - 1)), AsciiLower(query))
          ELSE Contains(AsciiLower(stored), AsciiLower(query))

RECURSIVE SelectRows(_, _, _)
\* SavedPage.query.filter(title LIKE ... | gumloop_data LIKE ...).all()
SelectRows(rs, query, dumped) ==
    IF rs = <<>> THEN <<>>
    ELSE (IF TitleLike(rs[1], query) \/ DataLike(rs[1], query, dumped)
          THEN <<rs[1]>> ELSE <<>>) \o SelectRows(Tail(rs), query, dumped)

\* an exception raised while an item was built leaves the function
FirstRaised(items) ==
    items[CHOOSE i \in 1..Len(items) :
              /\ items[i].content_snippet.t = "raise"
              /\ \A j \in 1..(i - 1) : items[j].content_snippet.t # "raise"].content_snippet

SearchItem(row, query) ==
    [id |-> row.id, title |-> row.title, url |-> row.url, saved_at |-> row.saved_at,
     content_snippet |-> IF Truthy(row.gumloop_data)
                         THEN extract_content_snippet(row.gumloop_data, query, DefaultMaxLength)
                         ELSE JNull]

search_database(query, rs, dumped) ==
    LET results == SelectRows(rs, query, dumped)
        items == [i \in 1..Len(results) |-> SearchItem(results[i], query)]
    IN IF results = <<>> THEN ResultObject(NoResultsFound, <<>>)
       ELSE IF \E i \in 1..Len(items) : items[i].content_snippet.t = "raise"
       THEN FirstRaised(items)
       ELSE ResultObject(FoundResults(Len(results)), items)

\* "relevance_score": 1.0, in tenths
DefaultRelevance == 10

AdvancedItem(row, query) ==
    LET content_text == extract_text_content(row.gumloop_data)
    IN [id |-> row.id, title |-> row.title, url |-> row.url, saved_at |-> row.saved_at,
        content_snippet |->
            extract_content_snippet_advanced(content_text, query, DefaultMaxLengthAdvanced),
        relevance_score |-> DefaultRelevance]

RECURSIVE AdvancedMatches(_, _)
\* the rows whose title or extracted text contains the query, without case
AdvancedMatches(rs, query) ==
    IF rs = <<>> THEN <<>>
    ELSE (IF \/ Contains(Lower(rs[1].title.s), Lower(query))
             \/ Contains(Lower(extract_text_content(rs[1].gumloop_data).s), Lower(query))
          THEN <<AdvancedItem(rs[1], query)>> ELSE <<>>)
         \o AdvancedMatches(Tail(rs), query)

RECURSIVE RankInsert(_, _)
RankInsert(x, sorted) ==
    IF sorted = <<>> THEN <<x>>
    ELSE IF sorted[1].relevance_score <= x.relevance_score THEN <<x>> \o sorted
    ELSE <<sorted[1]>> \o RankInsert(x, Tail(sorted))

RECURSIVE RankSort(_)
\* sorted(results, key=relevance_score, reverse=True): stable
RankSort(results) ==
    IF results = <<>> THEN <<>> ELSE RankInsert(results[1], RankSort(Tail(results)))

\* what the LLM does when asked to rank: messages.create raises, its answer
\* holds no score, its answer gives result 1 the score 0/10
RankOutcomes == {"raises", "no_scores", "first_is_zero"}

llm_rank_search_results(results, llm) ==
    CASE llm = "raises" -> results
      [] llm = "no_scores" -> RankSort(results)
      [] OTHER -> RankSort([results EXCEPT ![1].relevance_score = 0])

advanced_search_database(query, use_llm, rs, hasClaude, llm) ==
    IF rs = <<>> THEN ResultObject(NoSavedPagesFound, <<>>)
    ELSE LET results == AdvancedMatches(rs, query)
             ranked == IF use_llm /\ hasClaude /\ results # <<>>
                       THEN llm_rank_search_results(results, llm) ELSE results
         IN ResultObject(FoundResults(Len(ranked)), ranked)

\* conversational_search sends a prompt: a client is set and the table it
\* read is not empty
ConversationalCalls(rs, hasClaude) == hasClaude /\ get_all_saved_pages(rs) # <<>>

\* advanced_search_database calls llm_rank_search_results
AdvancedCalls(query, use_llm, rs, hasClaude) ==
    use_llm /\ hasClaude /\ AdvancedMatches(rs, query) # <<>>

-----------------------------------------------------------------------------
(* The search entry points: the tools of run_mcp_server and app.mcp_search *)

IsRaised(v) == "exc" \in DOMAIN v

ProvideQueryText == "Please provide a search query"
AskQuestionText == "Please ask a question about your saved content"
LlmSearchUnavailableText ==
    "LLM-based search is not available. Please set the ANTHROPIC_API_KEY environment variable."
ChatUnavailableText ==
    "Conversational search requires the Anthropic API. Please set the ANTHROPIC_API_KEY environment variable."

\* the text a tool formats from a result object
FormattedResults(results) ==
    IF IsRaised(results) THEN results
    ELSE [kind |-> "text", text |-> "Found {len(results['items'])} results for query: {query}",
          context |-> <<>>, items |-> results.items]

search_secondbrain(query, rs, dumped) ==
    IF query = <<>> THEN TextAnswer(ProvideQueryText, <<>>)
    ELSE FormattedResults(search_database(query, rs, dumped))

search_secondbrain_advanced(query, use_llm, rs, hasClaude, llm) ==
    IF query = <<>> THEN TextAnswer(ProvideQueryText, <<>>)
    ELSE IF use_llm /\ ~hasClaude THEN TextAnswer(LlmSearchUnavailableText, <<>>)
    ELSE FormattedResults(advanced_search_database(query, use_llm, rs, hasClaude, llm))

chat_with_secondbrain(query, rs, hasClaude, llm) ==
    IF query = <<>> THEN TextAnswer(AskQuestionText, <<>>)
    ELSE IF ~hasClaude THEN TextAnswer(ChatUnavailableText, <<>>)
    ELSE conversational_search(query, rs, hasClaude, llm)

\* the JSON answer of app.mcp_search to a body with a query
JsonResults(http, status, results) ==
    [kind |-> "json", http |-> http, status |-> status, results |-> results]

mcp_search(query, use_conversational, rs, hasClaude, llm, dumped) ==
    IF use_conversational /\ hasClaude
    THEN JsonResults(200, "success",
                     [kind |-> "result", message |-> Message("Conversational search results", 0),
                      items |-> <<>>,
                      conversational_response |->
                          conversational_search(query, rs, hasClaude, llm)])
    ELSE LET results == search_database(query, rs, dumped)
         IN IF IsRaised(results) THEN JsonResults(500, "error", results)
            ELSE JsonResults(200, "success", results)

-----------------------------------------------------------------------------
(* Payloads handed to the pure functions *)

SeqsUpTo(S, n) == UNION {[1..k -> S] : k \in 0..n}

A == <<"a">>
BC == <<"b", "c">>

\* the characters of the generated texts and of str(True), str(7)
Chars == {"a", "b", "c", " ", "7", "T", "r", "u", "e"}

Scalars == {JNull, JBool(TRUE), JNum(0), JNum(7), JStr(<<>>), JStr(A), JStr(BC)}

DictKeys == {"website_content", "output", "content", "extracted_content", "text", "title"}

\* containers that occur nested inside a payload
InnerValues ==
    {JList(<<>>), JDict(<<>>),
     JList(<<JNum(7)>>), JList(<<JStr(A), JNull>>),
     JDict(<<<<"content", JStr(BC)>>>>), JDict(<<<<"title", JNum(7)>>>>),
     JDict(<<<<"title", JStr(A)>>, <<"text", JList(<<JStr(BC)>>)>>>>)}

Values == Scalars \cup InnerValues

DistinctKeys(kv) == \A i, j \in 1..Len(kv) : i # j => kv[i][1] # kv[j][1]

Payloads ==
    Values
    \cup {JList(xs) : xs \in SeqsUpTo(Values, MaxItems)}
    \cup {JDict(kv) : kv \in {s \in SeqsUpTo(DictKeys \X Values, MaxItems) : DistinctKeys(s)}}

-----------------------------------------------------------------------------
(* The state of the server before any request *)

\* no answer received from the pipeline yet
NoAnswer == [kind |-> "none", status_code |-> 0, json |-> JNull, text |-> <<>>]
\* no response returned yet
NoResponse == [kind |-> "none", http |-> 0, status |-> "none", state |-> JNull, run_id |-> JNull]

\* the environments the server is started in: everything configured, no
\* Anthropic key, no GUMLOOP_SAVED_ITEM_ID, no GUMLOOP_API_KEY
Deployments ==
    {<<TRUE, TRUE, TRUE>>, <<TRUE, TRUE, FALSE>>, <<TRUE, FALSE, TRUE>>, <<FALSE, TRUE, TRUE>>}

\* the columns of the model SavedPage and those of the table of an earlier
\* version, which had neither gumloop_data nor saved_item_id
ModelColumns == {"id", "title", "url", "saved_at", "gumloop_data", "saved_item_id"}
LegacyColumns == {"id", "title", "url", "saved_at"}

\* the table db.create_all() makes of the model: saved_item_id is
\* unique=True, nullable=False
CreatedSchema == [columns |-> ModelColumns, unique |-> TRUE, not_null |-> TRUE]
\* the table of the earlier version (title, url and saved_at as the model
\* declares them); db.create_all() leaves a table that exists as it is
LegacySchema == [columns |-> LegacyColumns, unique |-> FALSE, not_null |-> FALSE]

\* no run of fix_db.py is under way
NoMigration == fix_pc = "idle" /\ column_names = {}

\* the application starts on the database db
AppInitOn(db) ==
    /\ rows = db.rows
    /\ schema = db.schema
    /\ NoMigration
    /\ now = 1
    /\ uuidCtr = 0
    /\ \E dep \in Deployments :
          apiKey = dep[1] /\ savedItemCfg = dep[2] /\ claude = dep[3]
    /\ reqs = 0
    /\ pc = "idle"
    /\ handler = "none"
    /\ data = JNull
    /\ start_response = NoAnswer
    /\ start_data = JNull
    /\ run_id = JNull
    /\ attempt = 0
    /\ result_data = JNull
    /\ final_state = JNull
    /\ got200 = FALSE
    /\ get_response = NoAnswer
    /\ last200 = JNull
    /\ sleeps = 0
    /\ startCalls = 0
    /\ rowsBefore = Len(db.rows)
    /\ response = NoResponse

\* db.create_all() on a new database file: the table is empty
NewDatabase == [rows |-> <<>>, schema |-> CreatedSchema]
AppInit == AppInitOn(NewDatabase)

PureIdle == x_in = JNull /\ x_out = JNull /\ x_op = "none" /\ x_read = <<>>

-----------------------------------------------------------------------------
(* The SavedPage table (server/App/models.py) *)

\* SavedPage(title=..., url=..., gumloop_data=..., saved_item_id=...), not yet flushed
SavedPage(title, url, gumloop_data, saved_item_id) ==
    [id |-> 0, title |-> title, url |-> url, saved_at |-> 0,
     gumloop_data |-> gumloop_data, saved_item_id |-> saved_item_id]

\* every statement the ORM makes for SavedPage names all columns of the
\* model: on a table that lacks one of them it raises OperationalError
TableReady(sch) == ModelColumns \subseteq sch.columns

\* a value sqlite3 can bind to a parameter of a String column: None, a str,
\* a number or a bool, but no list and no dict
Bindable(v) == v.t \in {"null", "str", "num", "bool"}

\* the value a VARCHAR column (TEXT affinity) holds for the bound value v: a
\* number or a bool (bound as 1 or 0) is stored as its text
Bound(v) ==
    CASE v.t = "num" -> JStr(IntStr(v.n))
      [] v.t = "bool" -> JStr(IF v.b THEN <<"1">> ELSE <<"0">>)
      [] OTHER -> v

\* the INSERT of row into the table with schema sch and rows rs succeeds: the
\* table has the columns of the model, the values can be bound, title and url
\* are NOT NULL, and saved_item_id is NOT NULL and UNIQUE where the table
\* has these constraints; otherwise commit raises (OperationalError,
\* InterfaceError, IntegrityError)
CommitOk(sch, rs, row) ==
    /\ TableReady(sch)
    /\ Bindable(row.title) /\ Bindable(row.url) /\ Bindable(row.saved_item_id)
    /\ row.title # JNull
    /\ row.url # JNull
    /\ sch.not_null => row.saved_item_id # JNull
    /\ sch.unique =>
          \/ row.saved_item_id = JNull
          \/ \A i \in 1..Len(rs) : rs[i].saved_item_id # Bound(row.saved_item_id)

\* the row as the table stores it
StoredRow(row) ==
    [row EXCEPT !.title = Bound(row.title), !.url = Bound(row.url),
                !.saved_item_id = Bound(row.saved_item_id)]

\* db.session.add(row); db.session.commit(): the row gets the next primary key
\* and saved_at = datetime.utcnow(); no other row is written
InsertTouchingAll(rs, row, t) ==
    Append([i \in 1..Len(rs) |-> [rs[i] EXCEPT !.saved_at = t]],
           [StoredRow(row) EXCEPT !.id = Len(rs) + 1, !.saved_at = t])
Insert(rs, row, t) ==
    Append(rs, [StoredRow(row) EXCEPT !.id = Len(rs) + 1, !.saved_at = t])

-----------------------------------------------------------------------------
(* The table of an earlier version and its migration (server/fix_db.py) *)

\* a row written before the columns gumloop_data and saved_item_id existed;
\* a column the table lacks, or one ALTER TABLE has added, holds NULL
LegacyRow(id) ==
    [id |-> id, title |-> JStr(<<"t">>), url |-> JStr(<<"u">>), saved_at |-> 0,
     gumloop_data |-> JNull, saved_item_id |-> JNull]

\* a database file of the earlier version: its table lacks the two columns
\* and holds no row or two rows
LegacyDatabases ==
    {[rows |-> <<>>, schema |-> LegacySchema],
     [rows |-> <<LegacyRow(1), LegacyRow(2)>>, schema |-> LegacySchema]}

\* "legacy-" || id
LegacyId(id) == JStr(<<"l", "e", "g", "a", "c", "y", "-">> \o IntStr(id))

\* UPDATE saved_page SET saved_item_id = "legacy-" || id WHERE saved_item_id IS NULL
UpdateLegacy(rs) ==
    [i \in 1..Len(rs) |->
        IF rs[i].saved_item_id = JNull
        THEN [rs[i] EXCEPT !.saved_item_id = LegacyId(rs[i].id)]
        ELSE rs[i]]

\* two rows hold the same saved_item_id (NULLs are distinct in a unique index)
HasDuplicates(rs) ==
    \E i, j \in 1..Len(rs) :
        i # j /\ rs[i].saved_item_id # JNull /\ rs[i].saved_item_id = rs[j].saved_item_id

-----------------------------------------------------------------------------
(* Texts of the server model *)

DONE == <<"D", "O", "N", "E">>
FAILED == <<"F", "A", "I", "L", "E", "D">>
TERMINATED == <<"T", "E", "R", "M", "I", "N", "A", "T", "E", "D">>
RUNNING == <<"R", "U", "N", "N", "I", "N", "G">>
UNKNOWN == <<"U", "N", "K", "N", "O", "W", "N">>
Untitled == <<"U", "n", "t", "i", "t", "l", "e", "d">>
R1 == <<"r", "1">>
R2 == <<"r", "2">>
PageTitle == <<"t">>
PageUrl == <<"u">>
ErrText == <<"e", "r", "r">>

-----------------------------------------------------------------------------
(* What the clients and the pipeline may send *)

\* request.get_json() of a save_page / process_url request; Raised("BadRequest")
\* is a body that is not JSON. A field that is present may hold any JSON
\* value: the title null and the url a list pass the checks of the handlers
RequestBodies ==
    {Raised("BadRequest"), JNull, JDict(<<>>),
     JDict(<<<<"title", JStr(PageTitle)>>>>),
     JDict(<<<<"url", JStr(PageUrl)>>>>),
     JDict(<<<<"title", JStr(PageTitle)>>, <<"url", JStr(PageUrl)>>>>),
     JDict(<<<<"title", JNull>>, <<"url", JStr(PageUrl)>>>>),
     JDict(<<<<"title", JStr(PageTitle)>>, <<"url", JList(<<JStr(PageUrl)>>)>>>>),
     JDict(<<<<"url", JStr(PageUrl)>>, <<"saved_item_id", JStr(A)>>>>),
     JDict(<<<<"url", JStr(PageUrl)>>, <<"saved_item_id", JStr(<<>>)>>>>)}

\* the requests a client sends to save_page / process_url: the CORS preflight
\* (whose body is not read) and a POST of each body
Requests ==
    {[m |-> "OPTIONS", body |-> JNull]} \cup {[m |-> "POST", body |-> b] : b \in RequestBodies}

\* an answer to session.post / session.get: the call raises a
\* RequestException ("exc"), or returns status_code with a body whose
\* .json() is `json` (Raised("JSONDecodeError") when the body is not JSON)
NetworkError == [kind |-> "exc", status_code |-> 0, json |-> JNull, text |-> ErrText]
HttpAnswer(code, json) == [kind |-> "http", status_code |-> code, json |-> json, text |-> ErrText]

StartAnswers ==
    {NetworkError,
     HttpAnswer(500, JNull),
     HttpAnswer(200, Raised("JSONDecodeError")),
     HttpAnswer(200, JList(<<>>)),
     HttpAnswer(200, JDict(<<>>)),
     HttpAnswer(200, JDict(<<<<"run_id", JStr(R1)>>>>)),
     HttpAnswer(200, JDict(<<<<"run_id", JStr(R2)>>>>))}

\* how the JSONDecodeError of an answer is raised: as a RequestException (TRUE,
\* requests 2.27 and later) or as a plain ValueError (FALSE); an answer that
\* parses raises nothing
RaisesAs(resp) ==
    IF resp.kind = "http" /\ resp.status_code = 200 /\ resp.json.t = "raise"
    THEN BOOLEAN ELSE {FALSE}

StateBody(st) == JDict(<<<<"state", JStr(st)>>>>)

StatusBodies ==
    {JDict(<<>>), JList(<<>>),
     StateBody(RUNNING), StateBody(FAILED), StateBody(TERMINATED), StateBody(DONE),
     JDict(<<<<"state", JStr(DONE)>>, <<"outputs", JNull>>>>),
     JDict(<<<<"state", JStr(DONE)>>, <<"outputs", JStr(<<"t", "e", "x", "t">>)>>>>)}

StatusAnswers ==
    {NetworkError, HttpAnswer(404, JNull), HttpAnswer(200, Raised("JSONDecodeError"))}
    \cup {HttpAnswer(200, b) : b \in StatusBodies}

-----------------------------------------------------------------------------
(* server/app.py: save_page and process_url *)

\* maximum number of polling attempts
max_attempts == 10

\* the states that end polling
TerminalStatesWithoutTerminated == {DONE, FAILED}
TerminalStates == {DONE, FAILED, TERMINATED}

\* what a handler returns: jsonify(...) with an HTTP code, or '' for OPTIONS
JsonResponse(http, status, state, rid) ==
    [kind |-> "json", http |-> http, status |-> status, state |-> state, run_id |-> rid]
EmptyResponse == [kind |-> "empty", http |-> 200, status |-> "none", state |-> JNull, run_id |-> JNull]

\* an exception that leaves its handler: the server answers 500
Unhandled(e) ==
    [kind |-> "unhandled", http |-> 500, status |-> e, state |-> JNull, run_id |-> JNull]

\* a handler without the outer except: the exception leaves it
OuterExceptPropagates(h, e) == Unhandled(e)
\* the outermost `except Exception` of a handler: rollback, then a JSON error
OuterExcept(h, e) == JsonResponse(500, "error", JNull, JNull)

\* gumloop_data of a save whose start call failed
ErrorPayload(text) == JDict(<<<<"error", JStr(text)>>>>)

\* f"{int(time.time())}-{uuid.uuid4().hex[:8]}": the n-th uuid drawn differs
\* from all drawn before
FallbackId(t, n) == JStr(IntStr(t) \o <<"-", "x">> \o IntStr(n))

\* the title stored by a handler
TitleOf(h, d) ==
    IF h = "save_page" THEN Item(d, "title") ELSE Get(d, "title", JStr(Untitled))

\* add + commit of one row; a failing commit is caught by the outer except.
\* The result is the rows of the table and the response.
Persist(h, rs, row, t, okResponse) ==
    IF CommitOk(schema, rs, row)
    THEN [rows |-> Insert(rs, row, t), response |-> okResponse, uuids |-> 0]
    ELSE [rows |-> rs, response |-> OuterExcept(h, "IntegrityError"), uuids |-> 0]

UsesUuid(o) == [o EXCEPT !.uuids = 1]

\* `except requests.exceptions.RequestException`: save_page stores an error
\* row under a fallback id, process_url answers an error
OnRequestException(h, d, rs, t, n) ==
    IF h = "save_page"
    THEN UsesUuid(Persist(h, rs,
                 SavedPage(Item(d, "title"), Item(d, "url"), ErrorPayload(ErrText), FallbackId(t, n)),
                 t, JsonResponse(202, "partial_success", JNull, FallbackId(t, n))))
    ELSE [rows |-> rs, response |-> JsonResponse(500, "error", JNull, JNull), uuids |-> 0]

\* any other exception reaches the outer except
OnException(h, rs, e) == [rows |-> rs, response |-> OuterExcept(h, e), uuids |-> 0]

\* start_response.status_code != 200
OnStartNot200(h, d, rs, t, n, resp) ==
    IF h = "save_page"
    THEN UsesUuid(Persist(h, rs,
                 SavedPage(Item(d, "title"), Item(d, "url"), ErrorPayload(resp.text), FallbackId(t, n)),
                 t, JsonResponse(202, "partial_success", JNull, FallbackId(t, n))))
    ELSE [rows |-> rs, response |-> JsonResponse(resp.status_code, "error", JNull, JNull), uuids |-> 0]

\* `if not run_id`
OnNoRunId(h, d, rs, t, n, sd) ==
    IF h = "save_page"
    THEN UsesUuid(Persist(h, rs,
                 SavedPage(Item(d, "title"), Item(d, "url"), sd, FallbackId(t, n)),
                 t, JsonResponse(202, "partial_success", JNull, FallbackId(t, n))))
    ELSE [rows |-> rs, response |-> JsonResponse(500, "error", JNull, JNull), uuids |-> 0]

\* the field names probed in outputs
OutputFields ==
    {<<"W", "e", "b", "s", "i", "t", "e", " ", "C", "o", "n", "t", "e", "n", "t">>,
     <<"o", "u", "t", "p", "u", "t">>,
     <<"t", "e", "x", "t">>,
     <<"c", "o", "n", "t", "e", "n", "t">>,
     <<"e", "x", "t", "r", "a", "c", "t", "e", "d", "_", "c", "o", "n", "t", "e", "n", "t">>,
     <<"h", "t", "m", "l">>}

\* the chain `if "Website Content" in outputs: ... outputs["Website Content"]`
\* raises TypeError: `in` on a value that is no container, or the index by a
\* field name of a str holding the name or of a list with the name in it
ProbeRaises(outputs) ==
    CASE outputs.t \in {"null", "num", "bool"} -> TRUE
      [] outputs.t = "str" -> \E k \in OutputFields : Contains(outputs.s, k)
      [] outputs.t = "list" ->
            \E k \in OutputFields : \E i \in 1..Len(outputs.xs) : outputs.xs[i] = JStr(k)
      [] OTHER -> FALSE

\* the code after the poll loop: a partial row under run_id with the start
\* response, or the full row with the last payload
AfterLoop(h, d, rs, t, sd, rid, rd, fs) ==
    IF ~Truthy(rd) \/ fs # JStr(DONE)
    THEN Persist(h, rs, SavedPage(TitleOf(h, d), Item(d, "url"), sd, rid),
                 t, JsonResponse(202, "partial_success", fs, rid))
    ELSE IF ProbeRaises(Get(rd, "outputs", JDict(<<>>)))
    THEN OnException(h, rs, "TypeError")
    ELSE Persist(h, rs, SavedPage(TitleOf(h, d), Item(d, "url"), rd, rid),
                 t, JsonResponse(200, "success", fs, rid))

\* the checks of save_page without the one of the API key
SavePageChecksWithoutKey(m, body) ==
    IF m = "OPTIONS" THEN EmptyResponse
    ELSE IF body.t = "raise" THEN OuterExcept("save_page", body.exc)
    ELSE IF ~Truthy(body) \/ ~Has(body, "title") \/ ~Has(body, "url")
    THEN JsonResponse(400, "error", JNull, JNull)
    ELSE IF ~savedItemCfg THEN JsonResponse(500, "error", JNull, JNull)
    ELSE NoResponse

\* the checks of save_page before the start call: the response of a rejected
\* request, NoResponse for a request that goes on
SavePageChecks(m, body) ==
    IF m = "OPTIONS" THEN EmptyResponse
    ELSE IF body.t = "raise" THEN OuterExcept("save_page", body.exc)
    ELSE IF ~Truthy(body) \/ ~Has(body, "title") \/ ~Has(body, "url")
    THEN JsonResponse(400, "error", JNull, JNull)
    ELSE IF ~apiKey THEN JsonResponse(500, "error", JNull, JNull)
    ELSE IF ~savedItemCfg THEN JsonResponse(500, "error", JNull, JNull)
    ELSE NoResponse

\* os.getenv('GUMLOOP_SAVED_ITEM_ID')
GUMLOOP_SAVED_ITEM_ID == IF savedItemCfg THEN JStr(A) ELSE JNull

\* the checks of process_url before the start call
ProcessUrlChecks(m, body) ==
    IF m = "OPTIONS" THEN EmptyResponse
    ELSE IF body.t = "raise" THEN OuterExcept("process_url", body.exc)
    ELSE IF ~Truthy(body) \/ ~Has(body, "url")
    THEN JsonResponse(400, "error", JNull, JNull)
    ELSE IF ~apiKey THEN JsonResponse(500, "error", JNull, JNull)
    ELSE IF ~Truthy(Get(body, "saved_item_id", GUMLOOP_SAVED_ITEM_ID))
    THEN JsonResponse(400, "error", JNull, JNull)
    ELSE NoResponse

\* a request arrives at handler h and runs up to the start call
Arrives(h, m, body, checks) ==
    /\ pc = "idle"
    /\ reqs < MaxRequests
    /\ reqs' = reqs + 1
    /\ now' = now + 1
    /\ handler' = h
    /\ data' = body
    /\ start_response' = NoAnswer
    /\ start_data' = JNull
    /\ run_id' = JNull
    /\ attempt' = 0
    /\ result_data' = JNull
    /\ final_state' = JNull
    /\ got200' = FALSE
    /\ get_response' = NoAnswer
    /\ last200' = JNull
    /\ sleeps' = 0
    /\ startCalls' = 0
    /\ rowsBefore' = Len(rows)
    /\ response' = checks
    /\ pc' = IF checks = NoResponse THEN "start" ELSE "done"
    /\ UNCHANGED <<rows, uuidCtr, apiKey, savedItemCfg, claude, dbvars, purevars>>

SavePageArrives(m, body) == Arrives("save_page", m, body, SavePageChecks(m, body))

ProcessUrlArrives(m, body) == Arrives("process_url", m, body, ProcessUrlChecks(m, body))

\* session.post(start_pipeline) is answered by resp and the handler runs to
\* the poll loop or to its return. jsonIsReqExc: whether the installed
\* requests raises its JSONDecodeError as a RequestException (2.27 and later)
\* or as a plain ValueError.
StartOutcome(h, d, rs, t, n, resp, jsonIsReqExc) ==
    IF resp.kind = "exc" THEN OnRequestException(h, d, rs, t, n)
    ELSE IF resp.status_code # 200 THEN OnStartNot200(h, d, rs, t, n, resp)
    ELSE IF resp.json.t = "raise"
    THEN (IF jsonIsReqExc THEN OnRequestException(h, d, rs, t, n)
          ELSE OnException(h, rs, resp.json.exc))
    ELSE IF resp.json.t # "dict" THEN OnException(h, rs, "AttributeError")
    ELSE IF ~Truthy(Get(resp.json, "run_id", JNull)) THEN OnNoRunId(h, d, rs, t, n, resp.json)
    ELSE [rows |-> rs, response |-> NoResponse, uuids |-> 0]

StartPipeline(resp, jsonIsReqExc) ==
    /\ pc = "start"
    /\ LET o == StartOutcome(handler, data, rows, now, uuidCtr, resp, jsonIsReqExc)
           parsed == resp.kind = "http" /\ resp.status_code = 200 /\ resp.json.t # "raise"
       IN /\ startCalls' = startCalls + 1
          /\ start_response' = resp
          /\ start_data' = IF parsed THEN resp.json ELSE JNull
          /\ run_id' = IF parsed /\ resp.json.t = "dict"
                       THEN Get(resp.json, "run_id", JNull) ELSE JNull
          /\ rows' = o.rows
          /\ uuidCtr' = uuidCtr + o.uuids
          /\ response' = o.response
          /\ IF o.response = NoResponse
             THEN /\ pc' = "poll"                  \* time.sleep(2), then the loop
                  /\ sleeps' = sleeps + 1
                  /\ result_data' = JNull
                  /\ final_state' = JStr(UNKNOWN)
             ELSE /\ pc' = "done"
                  /\ UNCHANGED <<sleeps, result_data, final_state>>
    /\ UNCHANGED <<now, apiKey, savedItemCfg, claude, reqs, handler, data, attempt,
                   got200, get_response, last200, rowsBefore, dbvars, purevars>>

\* `final_state in ["DONE", "FAILED", "TERMINATED"]`
IsTerminal(fs) == fs.t = "str" /\ fs.s \in TerminalStates

\* a poll iteration that drops the retained payload on an answer other than 200
PollStepForgetsOnError(resp, rd, fs, jsonIsReqExc) ==
    IF resp.kind = "exc" THEN [rd |-> rd, fs |-> fs, ends |-> "reqexc", exc |-> "RequestException"]
    ELSE IF resp.status_code # 200
    THEN [rd |-> JNull, fs |-> JStr(UNKNOWN), ends |-> "sleep", exc |-> "none"]
    ELSE IF resp.json.t = "raise"
    THEN [rd |-> rd, fs |-> fs, ends |-> IF jsonIsReqExc THEN "reqexc" ELSE "exc",
          exc |-> resp.json.exc]
    ELSE IF resp.json.t # "dict"
    THEN [rd |-> resp.json, fs |-> fs, ends |-> "exc", exc |-> "AttributeError"]
    ELSE LET st == Get(resp.json, "state", JStr(UNKNOWN))
         IN [rd |-> resp.json, fs |-> st,
             ends |-> IF IsTerminal(st) THEN "break" ELSE "sleep", exc |-> "none"]

\* one iteration of the poll loop on the answer resp: the new locals and how
\* the iteration ends ("sleep": time.sleep and the next iteration; "break";
\* "reqexc": a RequestException; "exc": another exception)
PollStep(resp, rd, fs, jsonIsReqExc) ==
    IF resp.kind = "exc" THEN [rd |-> rd, fs |-> fs, ends |-> "reqexc", exc |-> "RequestException"]
    ELSE IF resp.status_code # 200 THEN [rd |-> rd, fs |-> fs, ends |-> "sleep", exc |-> "none"]
    ELSE IF resp.json.t = "raise"
    THEN [rd |-> rd, fs |-> fs, ends |-> IF jsonIsReqExc THEN "reqexc" ELSE "exc",
          exc |-> resp.json.exc]
    ELSE IF resp.json.t # "dict"
    THEN [rd |-> resp.json, fs |-> fs, ends |-> "exc", exc |-> "AttributeError"]
    ELSE LET st == Get(resp.json, "state", JStr(UNKNOWN))
         IN [rd |-> resp.json, fs |-> st,
             ends |-> IF IsTerminal(st) THEN "break" ELSE "sleep", exc |-> "none"]

\* an iteration that sleeps the delay twice
SleptTwice(ends, n) == IF ends = "sleep" THEN n + 2 ELSE n

\* the number of time.sleep calls after an iteration, n before it: one
\* time.sleep(polling_delay) in an iteration that neither breaks nor raises
Slept(ends, n) == IF ends = "sleep" THEN n + 1 ELSE n

\* session.get(get_pl_run) is answered by resp: one iteration of the loop.
\* An iteration that breaks or raises runs on to the end of the handler; the
\* last iteration that does neither ends in time.sleep, and the handler
\* commits its row after the delay (AfterPolling).
PollStatus(resp, jsonIsReqExc) ==
    /\ pc = "poll"
    /\ attempt < max_attempts
    /\ LET st == PollStep(resp, result_data, final_state, jsonIsReqExc)
           left == st.ends # "sleep"
           o == CASE st.ends = "reqexc" ->
                       OnRequestException(handler, data, rows, now, uuidCtr)
                  [] st.ends = "exc" -> OnException(handler, rows, st.exc)
                  [] OTHER ->
                       AfterLoop(handler, data, rows, now, start_data, run_id, st.rd, st.fs)
       IN /\ attempt' = attempt + 1
          /\ got200' = (got200 \/ (resp.kind = "http" /\ resp.status_code = 200))
          /\ get_response' = resp
          /\ last200' = IF resp.kind = "http" /\ resp.status_code = 200
                        THEN resp.json ELSE last200
          /\ result_data' = st.rd
          /\ final_state' = st.fs
          /\ sleeps' = Slept(st.ends, sleeps)
          /\ IF left
             THEN /\ pc' = "done"
                  /\ rows' = o.rows
                  /\ uuidCtr' = uuidCtr + o.uuids
                  /\ response' = o.response
             ELSE /\ pc' = IF attempt + 1 = max_attempts THEN "persist" ELSE "poll"
                  /\ UNCHANGED <<rows, uuidCtr, response>>
    /\ UNCHANGED <<now, apiKey, savedItemCfg, claude, reqs, handler, data, start_response,
                   start_data, run_id, startCalls, rowsBefore, dbvars, purevars>>

\* the last delay is over and the loop is left with attempts used up: the
\* code after the loop commits the row and answers
AfterPolling ==
    /\ pc = "persist"
    /\ LET o == AfterLoop(handler, data, rows, now, start_data, run_id,
                          result_data, final_state)
       IN /\ rows' = o.rows
          /\ uuidCtr' = uuidCtr + o.uuids
          /\ response' = o.response
    /\ pc' = "done"
    /\ UNCHANGED <<now, apiKey, savedItemCfg, claude, reqs, handler, data, start_response,
                   start_data, run_id, attempt, result_data, final_state, got200,
                   get_response, last200, sleeps, startCalls, rowsBefore, dbvars, purevars>>

\* where a handler waits for the network or in time.sleep
Waiting == {"start", "poll", "persist", "fetch", "llm"}

\* The server is threaded (app.run): while the handler followed here waits,
\* the save_page request of another thread, whose run sid ended DONE, commits
\* its row. rowsBefore counts the rows the followed request has not written.
ConcurrentCommit(sid) ==
    /\ pc \in Waiting
    /\ reqs < MaxRequests
    /\ LET row == SavedPage(JStr(PageTitle), JStr(PageUrl), StateBody(DONE), JStr(sid))
       IN /\ CommitOk(schema, rows, row)
          /\ rows' = Insert(rows, row, now + 1)
    /\ now' = now + 1
    /\ reqs' = reqs + 1
    /\ rowsBefore' = rowsBefore + 1
    /\ UNCHANGED <<uuidCtr, apiKey, savedItemCfg, claude, pc, handler, data, start_response,
                   start_data, run_id, attempt, result_data, final_state, got200,
                   get_response, last200, sleeps, startCalls, response, dbvars, purevars>>

-----------------------------------------------------------------------------
(* The handlers that only read the table *)

HtmlResponse(http) == [kind |-> "html", http |-> http, status |-> "none", state |-> JNull, run_id |-> JNull]

\* the locals of save_page / process_url do not exist in another handler
NoSaveLocals ==
    /\ start_response' = NoAnswer
    /\ start_data' = JNull
    /\ run_id' = JNull
    /\ attempt' = 0
    /\ result_data' = JNull
    /\ final_state' = JNull
    /\ got200' = FALSE
    /\ get_response' = NoAnswer
    /\ last200' = JNull
    /\ sleeps' = 0
    /\ startCalls' = 0
    /\ rowsBefore' = Len(rows)

\* what a view without try/except answers after its query: r on a table
\* with the columns of the model; on another table the query raises
\* OperationalError, which leaves the view
QueryThen(r) == IF TableReady(schema) THEN r ELSE Unhandled("OperationalError")

\* a handler h that runs in one step and returns r without writing the table
Reads(h, r) ==
    /\ pc = "idle"
    /\ handler' = h
    /\ response' = r
    /\ pc' = "done"
    /\ data' = JNull
    /\ NoSaveLocals
    /\ UNCHANGED <<rows, now, uuidCtr, apiKey, savedItemCfg, claude, reqs, dbvars, purevars>>

PageIds == 1..(MaxRequests + 1)

\* views.index: all rows, newest first
IndexPage == Reads("index", QueryThen(HtmlResponse(200)))

\* a handler h that has read the table goes on to wait at pc w
ReadsAndWaits(h, d, w) ==
    /\ pc = "idle"
    /\ handler' = h
    /\ response' = NoResponse
    /\ pc' = w
    /\ data' = d
    /\ NoSaveLocals
    /\ UNCHANGED <<rows, now, uuidCtr, apiKey, savedItemCfg, claude, reqs, dbvars, purevars>>

\* the handler that waited at pc w goes on: slept tells whether it called
\* time.sleep, r is what it returns
Resumes(w, slept, r) ==
    /\ pc = w
    /\ sleeps' = IF slept THEN sleeps + 1 ELSE sleeps
    /\ response' = r
    /\ pc' = "done"
    /\ UNCHANGED <<rows, now, uuidCtr, apiKey, savedItemCfg, claude, reqs, handler, data,
                   start_response, start_data, run_id, attempt, result_data, final_state,
                   got200, get_response, last200, startCalls, rowsBefore, dbvars, purevars>>

\* page_detail asks the pipeline for the run of row id: the query succeeds,
\* the row exists, its gumloop_data is a non-empty dict (run_id falls back on
\* saved_item_id, which is never empty) and fetch_gumloop_extraction finds the
\* API key
FetchesExtraction(rs, id) ==
    /\ TableReady(schema)
    /\ id \in 1..Len(rs)
    /\ rs[id].gumloop_data.t = "dict" /\ Truthy(rs[id].gumloop_data)
    /\ apiKey

\* views.page_detail: get_or_404, then, for a row with gumloop_data, the
\* fetch from the pipeline
PageDetail(id) ==
    IF FetchesExtraction(rows, id)
    THEN ReadsAndWaits("page_detail", JNull, "fetch")
    ELSE Reads("page_detail",
               QueryThen(HtmlResponse(IF id \in 1..Len(rows) THEN 200 ELSE 404)))

\* fetch_gumloop_extraction called by page_detail: time.sleep(5), then
\* session.get, whose answer is only rendered
FetchExtraction == Resumes("fetch", TRUE, HtmlResponse(200))

\* views.api_recent_pages: the five newest rows as JSON
ApiRecentPages ==
    Reads("api_recent_pages", QueryThen(JsonResponse(200, "none", JNull, JNull)))

\* app.create_event_page: every exception, the 404 and the OperationalError
\* of the query included, renders error.html
CreateEventPage(id) == Reads("create_event_page", HtmlResponse(200))

\* views.search: search.html is rendered on every path; the view itself
\* makes no query
WebSearch == Reads("search", HtmlResponse(200))

McpBodies ==
    {Raised("BadRequest"), JNull, JDict(<<>>),
     JDict(<<<<"query", JStr(A)>>>>),
     JDict(<<<<"query", JNull>>>>),
     JDict(<<<<"query", JStr(A)>>, <<"conversational", JBool(FALSE)>>>>)}

\* the requests a client sends to mcp_search; fails: search_database raises
\* while it serves the request
McpRequests ==
    {[m |-> "OPTIONS", body |-> JNull, fails |-> FALSE]}
    \cup {[m |-> "POST", body |-> b, fails |-> FALSE] : b \in McpBodies}
    \cup {[m |-> "POST", body |-> JDict(<<<<"query", JStr(A)>>>>), fails |-> TRUE]}

\* the `except Exception` of mcp_search
McpSearchExcept(e) == JsonResponse(500, "error", JNull, JNull)

\* app.mcp_search. searchFails: search_database raises (an import or database
\* error, as on a table without the columns of the model, or
\* extract_content_snippet on a value that is no str); conversational_search
\* catches what it raises and returns a text
McpSearchResponse(m, body, searchFails) ==
    IF m = "OPTIONS" THEN EmptyResponse
    ELSE IF body.t = "raise" THEN McpSearchExcept(body.exc)
    ELSE IF ~Truthy(body) \/ ~Has(body, "query") THEN JsonResponse(400, "none", JNull, JNull)
    ELSE IF Truthy(Get(body, "conversational", JBool(TRUE))) /\ claude
    THEN JsonResponse(200, "success", JNull, JNull)
    ELSE IF searchFails THEN McpSearchExcept("Exception")
    ELSE JsonResponse(200, "success", JNull, JNull)

\* conversational_search is called and, the table read, sends its prompt; on
\* a table without the columns of the model get_all_saved_pages raises, on a
\* query that is no str query.lower() does, and no prompt is sent
CallsLlm(m, body, rs) ==
    /\ m = "POST"
    /\ body.t = "dict" /\ Has(body, "query")
    /\ Truthy(Get(body, "conversational", JBool(TRUE))) /\ claude
    /\ TableReady(schema)
    /\ rs # <<>>
    /\ Item(body, "query").t = "str"

McpSearch(m, body, searchFails) ==
    IF CallsLlm(m, body, rows)
    THEN ReadsAndWaits("mcp_search", body, "llm")
    ELSE /\ pc = "idle"
         /\ handler' = "mcp_search"
         /\ data' = body
         /\ response' = McpSearchResponse(m, body, searchFails \/ ~TableReady(schema))
         /\ pc' = "done"
         /\ NoSaveLocals
         /\ UNCHANGED <<rows, now, uuidCtr, apiKey, savedItemCfg, claude, reqs, dbvars, purevars>>

\* claude_client.messages.create returns or raises: conversational_search
\* returns a text in both cases and mcp_search answers with it
LlmAnswers == Resumes("llm", FALSE, McpSearchResponse("POST", data, FALSE))

\* the handler has returned: its response is delivered and its locals are gone
Return ==
    /\ pc = "done"
    /\ pc' = "idle"
    /\ handler' = "none"
    /\ data' = JNull
    /\ response' = NoResponse
    /\ NoSaveLocals
    /\ UNCHANGED <<rows, now, uuidCtr, apiKey, savedItemCfg, claude, reqs, dbvars, purevars>>

\* what a statement of fix_db.py leaves alone
FixFrame ==
    UNCHANGED <<now, uuidCtr, apiKey, savedItemCfg, claude, reqs, pc, handler, data,
                start_response, start_data, run_id, attempt, result_data, final_state,
                got200, get_response, last200, sleeps, startCalls, rowsBefore, response,
                purevars>>

\* python fix_db.py is started on a table that lacks gumloop_data:
\* column_names is read (PRAGMA table_info) and the column is added. sqlite3
\* opens no transaction for ALTER TABLE, so the column is there at once.
FixAddGumloopData ==
    /\ fix_pc = "idle"
    /\ "gumloop_data" \notin schema.columns
    /\ column_names' = schema.columns
    /\ schema' = [schema EXCEPT !.columns = @ \cup {"gumloop_data"}]
    /\ fix_pc' = "saved_item_id"
    /\ UNCHANGED rows
    /\ FixFrame

\* `if 'saved_item_id' not in column_names`: ALTER TABLE adds the column,
\* without NOT NULL and without UNIQUE
FixAddSavedItemId ==
    /\ fix_pc = "saved_item_id"
    /\ "saved_item_id" \notin column_names
    /\ schema' = [schema EXCEPT !.columns = @ \cup {"saved_item_id"}]
    /\ fix_pc' = "update"
    /\ UNCHANGED <<rows, column_names>>
    /\ FixFrame

\* the rows there are get "legacy-<id>"; `if 'saved_item_id' in column_names`
\* tests the list read before the column was added, so this run creates no
\* unique index; conn.commit() ends the run
FixUpdateLegacyRows ==
    /\ fix_pc = "update"
    /\ "saved_item_id" \notin column_names
    /\ rows' = IF Len(rows) > 0 THEN UpdateLegacy(rows) ELSE rows
    /\ fix_pc' = "idle"
    /\ column_names' = {}
    /\ UNCHANGED schema
    /\ FixFrame

\* python fix_db.py on a table that has both columns: no column is added, and
\* in one transaction the rows without saved_item_id get "legacy-<id>" and the
\* unique index is created. CREATE UNIQUE INDEX on rows that share a
\* saved_item_id raises IntegrityError, which the inner excepts
\* (OperationalError) do not catch: the outer except rolls the run back.
\* saved_item_id is never made NOT NULL.
FixAddUniqueIndex ==
    /\ fix_pc = "idle"
    /\ {"gumloop_data", "saved_item_id"} \subseteq schema.columns
    /\ IF HasDuplicates(UpdateLegacy(rows))
       THEN UNCHANGED <<rows, schema>>
       ELSE /\ rows' = UpdateLegacy(rows)
            /\ schema' = [schema EXCEPT !.unique = TRUE]
    /\ UNCHANGED <<fix_pc, column_names>>
    /\ FixFrame

\* python fix_db.py: a statement of the migration script is run
FixDatabase ==
    \/ FixAddGumloopData
    \/ FixAddSavedItemId
    \/ FixUpdateLegacyRows
    \/ FixAddUniqueIndex

-----------------------------------------------------------------------------
(* Specification of the server *)

\* the server is started on a new database file in any of the deployments,
\* or, fully configured, on a database file of the earlier version, which
\* fix_db.py may migrate at any time, before, between or during requests
Init ==
    /\ \/ AppInitOn(NewDatabase)
       \/ \E db \in LegacyDatabases : AppInitOn(db) /\ apiKey /\ savedItemCfg /\ claude
    /\ PureIdle

Next ==
    \/ \E r \in Requests : SavePageArrives(r.m, r.body)
    \/ \E r \in Requests : ProcessUrlArrives(r.m, r.body)
    \/ \E resp \in StartAnswers : \E b \in RaisesAs(resp) : StartPipeline(resp, b)
    \/ \E resp \in StatusAnswers : \E b \in RaisesAs(resp) : PollStatus(resp, b)
    \/ AfterPolling
    \/ \E sid \in {R1, R2} : ConcurrentCommit(sid)
    \/ IndexPage
    \/ \E id \in PageIds : PageDetail(id)
    \/ FetchExtraction
    \/ ApiRecentPages
    \/ \E id \in PageIds : CreateEventPage(id)
    \/ WebSearch
    \/ \E r \in McpRequests : McpSearch(r.m, r.body, r.fails)
    \/ LlmAnswers
    \/ Return
    \/ FixDatabase

Spec == Init /\ [][Next]_vars

-----------------------------------------------------------------------------
(* Claims about the server *)

SaveHandlers == {"save_page", "process_url"}

\* the request of handler h has returned
Returned(h) == handler = h /\ pc = "done"

\* the request has added exactly one row / no row
OneNewRow == Len(rows) = rowsBefore + 1
NoNewRow == Len(rows) = rowsBefore
NewRow == rows[Len(rows)]

\* an identifier in the format of the fallback ids, never a pipeline run id
LocallySynthesized(sid) ==
    /\ sid.t = "str"
    /\ \E i \in 1..Len(sid.s) : sid.s[i] = "-"
    /\ sid.s \notin {R1, R2}

\* C1: in save_page and in process_url the poll loop makes at most 10 status
\* calls, and makes none after the first answer whose state is DONE, FAILED or
\* TERMINATED: whenever another status call is about to be made, fewer than 10
\* were made and no terminal state has been received.
C1_PollStopsAtTerminalWithin10 ==
    handler \in SaveHandlers =>
        /\ attempt <= 10
        /\ pc = "poll" =>
              /\ attempt < 10
              /\ ~(final_state.t = "str" /\ final_state.s \in {DONE, FAILED, TERMINATED})

\* polling has ended on a TERMINATED answer before the budget was used up
C1_Witness ==
    /\ handler \in SaveHandlers /\ pc = "done"
    /\ attempt \in 2..9
    /\ final_state = JStr(TERMINATED)

\* C2 as stated: a save_page request that reached the start call ends with
\* exactly one new row, whatever the pipeline answers.
C2_SaveAlwaysPersists ==
    (Returned("save_page") /\ startCalls = 1) => OneNewRow

\* C3 as stated: when the start call of a save_page request raises a network
\* error, exactly one row is persisted, under a non-null locally synthesized
\* saved_item_id and with a gumloop_data that has the key 'error'.
C3_NetworkErrorRow ==
    (Returned("save_page") /\ start_response.kind = "exc") =>
        /\ OneNewRow
        /\ NewRow.saved_item_id # JNull
        /\ LocallySynthesized(NewRow.saved_item_id)
        /\ NewRow.gumloop_data.t = "dict"
        /\ Has(NewRow.gumloop_data, "error")

\* the poll loop ran through all its iterations and no status call returned 200
LoopEndedWithout200 ==
    /\ handler \in SaveHandlers /\ pc = "done"
    /\ attempt = 10 /\ sleeps = 11
    /\ ~got200

\* C4 as stated: when no status call returned HTTP 200, after the loop the
\* payload is None, the state is 'UNKNOWN' and the request is answered
\* partial_success with state UNKNOWN.
C4_No200GivesUnknownPartial ==
    LoopEndedWithout200 =>
        /\ result_data = JNull
        /\ final_state = JStr(UNKNOWN)
        /\ response.status = "partial_success"
        /\ response.state = JStr(UNKNOWN)

\* the start call returned HTTP 200 with a JSON object that has no run id
StartWithoutRunId ==
    /\ start_response.kind = "http" /\ start_response.status_code = 200
    /\ start_response.json.t = "dict"
    /\ ~Truthy(Get(start_response.json, "run_id", JNull))

\* C5 as stated: when the start call returns 200 without a run id, save_page
\* and process_url both persist the page under a locally generated id and
\* make no status call.
C5_NoRunIdFallsBack ==
    (handler \in SaveHandlers /\ pc = "done" /\ StartWithoutRunId) =>
        /\ OneNewRow
        /\ LocallySynthesized(NewRow.saved_item_id)
        /\ attempt = 0

\* C6 as stated: after any sequence of save_page and process_url requests,
\* every persisted row has a non-null saved_item_id and no two rows share
\* one. It is stated of the tables that have the column, the migrated table
\* of an earlier version included, while no run of the migration script is
\* under way.
C6_SavedItemIdUniqueNonNull ==
    (TableReady(schema) /\ NoMigration) =>
        /\ \A i \in 1..Len(rows) : rows[i].saved_item_id # JNull
        /\ \A i, j \in 1..Len(rows) :
              i # j => rows[i].saved_item_id # rows[j].saved_item_id

\* C7: no operation of the application changes or removes a persisted row:
\* in every step but a run of the migration script the table keeps each row
\* it had, saved_at included, and may only grow.
C7_RowsOnlyAppended ==
    [][\/ FixDatabase
       \/ /\ Len(rows') >= Len(rows)
          /\ \A i \in 1..Len(rows) : rows'[i] = rows[i]]_vars

\* a page saved earlier is rendered by page_detail after a second save
C7_Witness ==
    /\ Returned("page_detail")
    /\ Len(rows) = 2
    /\ rows[1].saved_at < rows[2].saved_at
    /\ response.http = 200

\* C8: every save_page, process_url and mcp_search request returns a JSON
\* answer and lets no exception out: either 'success' / 'partial_success'
\* (for the two save handlers: with the row persisted), or a JSON error
\* object (status 'error', or an 'error' body under an HTTP error code).
C8_NoExceptionEscapes ==
    (handler \in SaveHandlers \cup {"mcp_search"} /\ pc = "done" /\ response.kind # "empty") =>
        /\ response.kind = "json"
        /\ \/ /\ response.status \in {"success", "partial_success"}
              /\ handler \in SaveHandlers => OneNewRow
           \/ /\ response.status \notin {"success", "partial_success"}
              /\ response.status = "error" \/ response.http >= 400

\* the commit after polling failed on a stored run id and save_page answered
\* a JSON error
C8_Witness ==
    /\ Returned("save_page")
    /\ LoopEndedWithout200
    /\ Len(rows) >= 1 /\ run_id = rows[1].saved_item_id
    /\ NoNewRow
    /\ response.kind = "json" /\ response.status = "error" /\ response.http = 500

\* the start call raised a network error or answered another code than 200
StartFailed ==
    /\ startCalls = 1
    /\ \/ start_response.kind = "exc"
       \/ start_response.kind = "http" /\ start_response.status_code # 200

\* the poll loop was left, by `break` or with its budget used up, in a state
\* other than DONE
PollingEndedNotDone ==
    /\ attempt >= 1
    /\ \/ final_state \in {JStr(FAILED), JStr(TERMINATED)}
       \/ attempt = max_attempts /\ sleeps = max_attempts + 1

\* C16 as stated: in save_page and in process_url, whenever the extraction
\* fails (the start call answers another code than 200 or raises a network
\* error, or polling ends in a state other than DONE), the request writes a
\* row whose gumloop_data has the key 'error'.
C16_FailedExtractionWritesErrorRow ==
    (handler \in SaveHandlers /\ pc = "done" /\ (StartFailed \/ PollingEndedNotDone)) =>
        /\ OneNewRow
        /\ NewRow.gumloop_data.t = "dict"
        /\ Has(NewRow.gumloop_data, "error")

\* the 'state' field of a status payload, 'UNKNOWN' when it has none
StateField(payload) ==
    IF payload.t = "dict" /\ Has(payload, "state") THEN Item(payload, "state")
    ELSE JStr(UNKNOWN)

\* the poll loop was left by `break` or with its budget used up: the last
\* iteration raised nothing
LoopLeft ==
    /\ pc = "done" /\ attempt >= 1
    /\ get_response.kind = "http"
    /\ get_response.status_code # 200 \/ get_response.json.t = "dict"

\* C17: between the iterations of the poll loop and after the loop, once a
\* status call has returned HTTP 200, final_state is the 'state' field of the
\* most recent HTTP-200 payload ('UNKNOWN' when it has none) and result_data
\* is that payload, also when later status calls returned another code.
C17_KeepsLatest200Payload ==
    (handler \in SaveHandlers /\ got200 /\ (pc = "poll" \/ LoopLeft)) =>
        /\ result_data = last200
        /\ final_state = StateField(last200)

\* a RUNNING payload was fetched, the status calls after it answered 404 until
\* the budget was used up, and the request reports the state RUNNING
C17_Witness ==
    /\ handler \in SaveHandlers /\ LoopLeft
    /\ attempt = max_attempts
    /\ get_response.status_code = 404
    /\ last200 = StateBody(RUNNING)
    /\ result_data = StateBody(RUNNING)
    /\ response.state = JStr(RUNNING)

\* the status call answered another code than 200
Not200(resp) == resp.kind = "http" /\ resp.status_code # 200

\* the status call answered 200 with a payload whose state is DONE
Done200(resp) ==
    /\ resp.kind = "http" /\ resp.status_code = 200
    /\ resp.json.t = "dict" /\ Get(resp.json, "state", JNull) = JStr(DONE)

\* in the step a status call is made and answered
StatusCallStep == handler \in SaveHandlers /\ pc = "poll" /\ attempt' = attempt + 1

\* an answer other than 200 uses up one attempt, is followed by one sleep and,
\* while the budget lasts, by the next attempt
Non200KeepsPolling ==
    (StatusCallStep /\ Not200(get_response')) =>
        /\ sleeps' = sleeps + 1
        /\ attempt' <= max_attempts
        /\ attempt' < max_attempts => pc' = "poll"

\* one sleep lies between two consecutive status calls
OneDelayBetweenCalls ==
    (StatusCallStep /\ pc' = "poll") => sleeps' = sleeps + 1

\* a DONE answer that follows an answer other than 200 ends the request with
\* the success answer and the row
DoneAfterNon200Succeeds ==
    (StatusCallStep /\ Not200(get_response) /\ Done200(get_response')) =>
        /\ pc' = "done"
        /\ response'.status = "success"
        /\ Len(rows') = rowsBefore + 1

\* C18 as stated: a status answer other than 200 does not end polling: the
\* handler sleeps once and makes the next attempt, the failed attempt counts
\* against the 10 attempts, a later 200 answer with state DONE within the
\* budget yields the success outcome, and exactly one sleep lies between two
\* consecutive status calls.
C18_Non200DoesNotEndPolling ==
    [][Non200KeepsPolling /\ OneDelayBetweenCalls /\ DoneAfterNon200Succeeds]_vars

\* C19 as stated: in one save_page or process_url request the handler sleeps
\* at most 10 times the delay of 2 seconds, whatever the status endpoint
\* answers.
C19_Original ==
    handler \in SaveHandlers => sleeps <= 10

\* C19, corrected: the handler sleeps at most 11 times 2 seconds (22 seconds):
\* once before the loop and once in each of the at most 10 iterations that
\* neither break nor raise, the last one included.
C19_AtMostElevenDelays ==
    handler \in SaveHandlers =>
        /\ sleeps <= 11
        /\ sleeps <= attempt + 1
        /\ startCalls = 0 => sleeps = 0

\* ten status calls answered RUNNING: eleven sleeps, the last one after the
\* last attempt
C19_Witness ==
    /\ handler \in SaveHandlers /\ pc = "done"
    /\ attempt = 10 /\ sleeps = 11
    /\ final_state = JStr(RUNNING)
    /\ response.status = "partial_success"

\* polling ended with a non-empty HTTP-200 payload whose state is DONE
PollingEndedDone ==
    /\ LoopLeft /\ got200
    /\ Truthy(last200) /\ StateField(last200) = JStr(DONE)

\* the request has stored gumloop_data under the run id of the start answer
StoredUnderRunId(gumloop_data) ==
    /\ OneNewRow
    /\ NewRow.gumloop_data = gumloop_data
    /\ NewRow.saved_item_id = Get(start_response.json, "run_id", JNull)

\* C28 as stated: a save_page or process_url request answers 'success'
\* exactly when polling ended with a non-empty HTTP-200 payload whose state
\* is DONE, and then the new row holds that payload under the pipeline's run
\* id; when polling ends otherwise the answer is 'partial_success' and the
\* new row holds the start response under the pipeline's run id.
C28_SuccessIffDone ==
    (handler \in SaveHandlers /\ pc = "done") =>
        /\ response.status = "success" <=> PollingEndedDone
        /\ PollingEndedDone => StoredUnderRunId(last200)
        /\ (LoopLeft /\ ~PollingEndedDone) =>
              /\ response.status = "partial_success"
              /\ StoredUnderRunId(start_response.json)

\* the body of the request lacks a required field
MissingField ==
    \/ ~Truthy(data)
    \/ handler = "save_page" /\ ~Has(data, "title")
    \/ ~Has(data, "url")

\* no saved_item_id is configured or, for process_url, the one sent with the
\* request is empty
MissingSavedItemId ==
    IF handler = "save_page" THEN ~savedItemCfg
    ELSE IF Has(data, "saved_item_id") THEN ~Truthy(Item(data, "saved_item_id"))
    ELSE ~savedItemCfg

\* a POST whose JSON body lacks a required field, or that finds no API key
\* or no saved_item_id
RejectedBeforeStart ==
    /\ handler \in SaveHandlers /\ response.kind # "empty"
    /\ data.t # "raise"
    /\ MissingField \/ ~apiKey \/ MissingSavedItemId

\* C29: a save_page or process_url request rejected before the start call
\* (a required field, the API key or the saved_item_id is missing) is
\* answered with a JSON error at once: it makes no call to the pipeline and
\* writes no row.
C29_RejectedRequestTouchesNothing ==
    RejectedBeforeStart =>
        /\ pc = "done"
        /\ startCalls = 0 /\ attempt = 0 /\ sleeps = 0
        /\ get_response = NoAnswer /\ start_response = NoAnswer
        /\ NoNewRow
        /\ response.kind = "json" /\ response.status = "error"
        /\ response.http \in {400, 500}

\* a request without title has been rejected while a page saved before is
\* still the only row
C29_Witness ==
    /\ Returned("save_page") /\ RejectedBeforeStart
    /\ data.t = "dict" /\ ~Has(data, "title") /\ Has(data, "url")
    /\ rowsBefore = 1 /\ Len(rows) = 1
    /\ response.http = 400

-----------------------------------------------------------------------------
(* Specification of extract_text_content applied to one payload *)

InitExtract ==
    /\ AppInit /\ apiKey /\ savedItemCfg /\ claude
    /\ x_in \in Payloads
    /\ x_out = JNull
    /\ x_op = "none"
    /\ x_read = <<>>

ApplyExtract ==
    /\ x_op = "none"
    /\ x_out' = extract_text_content(x_in)
    /\ x_op' = "extract_text_content"
    /\ UNCHANGED <<x_in, x_read, appvars, dbvars>>

NextExtract == ApplyExtract

SpecExtract == InitExtract /\ [][NextExtract]_vars

-----------------------------------------------------------------------------
(* Claims about extract_text_content *)

\* C9: for every JSON payload (string, number, boolean, null, list, dict with
\* or without the known keys, nested) extract_text_content returns a string
\* and raises nothing.
C9_ReturnsString ==
    x_op = "extract_text_content" => (x_out.t = "str" /\ x_out.s \in Seq(Chars))

\* a dict without known content whose values mix a number, a string and a
\* nested container has been flattened to a non-empty string
C9_Witness ==
    /\ x_op = "extract_text_content"
    /\ x_in.t = "dict"
    /\ FirstKnown(x_in) = 0
    /\ \E i, j \in 1..Len(x_in.kv) :
          /\ x_in.kv[i][2].t = "num"
          /\ x_in.kv[j][2].t \in {"dict", "list"} /\ Truthy(x_in.kv[j][2])
    /\ x_out.t = "str" /\ x_out.s # <<>>

HasContentX ==
    /\ x_in.t = "dict"
    /\ Has(x_in, "content")
    /\ Item(x_in, "content").t = "str"
    /\ Item(x_in, "content").s # <<>>

\* C10 as stated: a dict holding 'content': X (X a non-empty string) yields
\* exactly X, whatever other keys the dict holds.
C10_Original ==
    (x_op = "extract_text_content" /\ HasContentX) => x_out = Item(x_in, "content")

EarlierKeyWins ==
    \E k \in {"website_content", "output"} : Has(x_in, k) /\ Truthy(Item(x_in, k))

\* C10 amended: a dict holding 'content': X (X a non-empty string) yields
\* exactly X provided neither 'website_content' nor 'output' is present with a
\* non-empty value; the keys probed later and all other keys do not matter.
C10_ContentUnlessEarlierKey ==
    (x_op = "extract_text_content" /\ HasContentX /\ ~EarlierKeyWins)
        => x_out = Item(x_in, "content")

\* 'content': X was returned although a later known key and an unknown key
\* hold other text
C10_Witness ==
    /\ x_op = "extract_text_content"
    /\ HasContentX /\ ~EarlierKeyWins
    /\ \E k \in {"extracted_content", "text", "title"} :
          Has(x_in, k) /\ Truthy(Item(x_in, k)) /\ Item(x_in, k) # Item(x_in, "content")
    /\ x_out = Item(x_in, "content")

\* the order in which the claim says the keys are probed
ProbeOrder == <<"website_content", "output", "content", "extracted_content", "text">>

\* key k is present in d with a non-empty (truthy) value
NonEmptyAt(d, k) == Has(d, k) /\ Truthy(Item(d, k))

\* C20: for a dict payload the result is the extraction of the value of the
\* first key, in the order website_content, output, content,
\* extracted_content, text, that is present with a non-empty (truthy) value;
\* the keys later in the order and all other keys of the dict do not matter.
C20_FirstNonEmptyKnownKeyWins ==
    (x_op = "extract_text_content" /\ x_in.t = "dict") =>
        \A i \in 1..Len(ProbeOrder) :
            (/\ NonEmptyAt(x_in, ProbeOrder[i])
             /\ \A j \in 1..(i - 1) : ~NonEmptyAt(x_in, ProbeOrder[j]))
                => x_out = extract_text_content(Item(x_in, ProbeOrder[i]))

\* a key earlier in the order is present with an empty value and listed
\* first in the dict; the text of a later key was returned
C20_Witness ==
    /\ x_op = "extract_text_content"
    /\ x_in.t = "dict" /\ Len(x_in.kv) = 2
    /\ \E i, j \in 1..Len(ProbeOrder) :
          /\ i < j
          /\ x_in.kv[1][1] = ProbeOrder[i] /\ ~Truthy(x_in.kv[1][2])
          /\ x_in.kv[2][1] = ProbeOrder[j] /\ Truthy(x_in.kv[2][2])
          /\ x_out = extract_text_content(x_in.kv[2][2])
    /\ x_out.s # <<>>

\* the payload is a number, a boolean or null
ScalarPayload == x_in.t \in {"num", "bool", "null"}

\* str(x) of the scalars of the model, written out
TextOf(j) ==
    CASE j = JNull -> <<"N", "o", "n", "e">>
      [] j = JBool(TRUE) -> <<"T", "r", "u", "e">>
      [] j = JBool(FALSE) -> <<"F", "a", "l", "s", "e">>
      [] j = JNum(0) -> <<"0">>
      [] j = JNum(7) -> <<"7">>

\* C21 as stated: a payload that is a number, a boolean or null yields its
\* textual representation str(payload).
C21_Original ==
    (x_op = "extract_text_content" /\ ScalarPayload) => x_out = JStr(TextOf(x_in))

\* C21, corrected: a number other than 0 and the boolean True yield their
\* textual representation; 0, False and null yield the empty string.
C21_TextOfTruthyScalar ==
    (x_op = "extract_text_content" /\ ScalarPayload) =>
        x_out = IF Truthy(x_in) THEN JStr(TextOf(x_in)) ELSE JStr(<<>>)

\* True has been rendered "True"
C21_Witness ==
    /\ x_op = "extract_text_content"
    /\ x_in = JBool(TRUE)
    /\ x_out = JStr(<<"T", "r", "u", "e">>)

\* no known key is present in the payload with a non-empty (truthy) value
NoKnownContent ==
    /\ x_in.t = "dict"
    /\ \A i \in 1..Len(ProbeOrder) : ~NonEmptyAt(x_in, ProbeOrder[i])

RECURSIVE CollectedTexts(_)
\* the texts the claim collects from the items kv, in their order: each string
\* value, the extraction of each dict or list value, nothing for other values
CollectedTexts(kv) ==
    IF kv = <<>> THEN <<>>
    ELSE LET v == kv[1][2]
         IN (IF v.t = "str" THEN <<v.s>>
             ELSE IF v.t \in {"dict", "list"} THEN <<extract_text_content(v).s>>
             ELSE <<>>) \o CollectedTexts(Tail(kv))

RECURSIVE SpaceJoined(_)
\* the texts ts joined by single spaces
SpaceJoined(ts) ==
    IF ts = <<>> THEN <<>>
    ELSE IF Len(ts) = 1 THEN ts[1]
    ELSE ts[1] \o <<" ">> \o SpaceJoined(Tail(ts))

\* C22: for a dict in which no known key is present with a non-empty value,
\* the result is the single-space join, in the dict's key order, of every
\* string value and of the extraction of every dict or list value; numbers,
\* booleans and null contribute nothing.
C22_JoinsValuesInKeyOrder ==
    (x_op = "extract_text_content" /\ NoKnownContent) =>
        x_out = JStr(SpaceJoined(CollectedTexts(x_in.kv)))

\* an empty known field comes first and a nested container second: the
\* result is the empty part, a space, and the container's text
C22_Witness ==
    /\ x_op = "extract_text_content" /\ NoKnownContent
    /\ Len(x_in.kv) = 2
    /\ x_in.kv[1][2] = JStr(<<>>)
    /\ x_in.kv[2][2].t \in {"dict", "list"}
    /\ Len(x_out.s) >= 2 /\ x_out.s[1] = " " /\ x_out.s[2] # " "

-----------------------------------------------------------------------------
(* Specification of the snippet functions applied to one text and query *)

\* a case pair, a second letter, the space and the character whose lowercase
\* form is two characters long
TextChars == {"a", "A", "b", " ", DottedCapitalI}

Texts == SeqsUpTo(TextChars, MaxText)

Queries ==
    {<<>>, <<"a">>, <<"b">>, <<"A", "b">>, <<"a", " ">>, <<"b", "b">>, <<"b", "a", "A">>,
     <<DottedCapitalI>>}

SnippetInputs ==
    [content : {JStr(t) : t \in Texts}, query : Queries, max_length : 0..MaxText]

InitSnippet ==
    /\ AppInit /\ apiKey /\ savedItemCfg /\ claude
    /\ x_in \in SnippetInputs
    /\ x_out = JNull
    /\ x_op = "none"
    /\ x_read = <<>>

ApplySnippet ==
    /\ x_op = "none"
    /\ x_out' = extract_content_snippet(x_in.content, x_in.query, x_in.max_length)
    /\ x_op' = "extract_content_snippet"
    /\ UNCHANGED <<x_in, x_read, appvars, dbvars>>

ApplySnippetAdvanced ==
    /\ x_op = "none"
    /\ x_out' = extract_content_snippet_advanced(x_in.content, x_in.query, x_in.max_length)
    /\ x_op' = "extract_content_snippet_advanced"
    /\ UNCHANGED <<x_in, x_read, appvars, dbvars>>

NextSnippet == ApplySnippet \/ ApplySnippetAdvanced

SpecSnippet == InitSnippet /\ [][NextSnippet]_vars

-----------------------------------------------------------------------------
(* Claims about the snippet functions *)

SnippetOps == {"extract_content_snippet", "extract_content_snippet_advanced"}

\* the query occurs in the text, case-insensitively
QueryOccurs == Contains(Lower(x_in.content.s), Lower(x_in.query))

\* text[:max_length] + '...'
HeadOfText == JStr(PySlice(x_in.content.s, 0, x_in.max_length) \o Dots)

\* C11 as stated: for every text, the empty one included, and every query
\* that does not occur in it, both snippet functions return
\* text[:max_length] + '...'.
C11_Original ==
    (x_op \in SnippetOps /\ ~QueryOccurs) => x_out = HeadOfText

\* C11 amended: for every non-empty text and every query that does not occur
\* in it, both snippet functions return text[:max_length] + '...', also when
\* the text is shorter than max_length; for the empty text both return None.
C11_HeadOfNonEmptyText ==
    (x_op \in SnippetOps /\ ~QueryOccurs) =>
        x_out = IF x_in.content.s = <<>> THEN JNull ELSE HeadOfText

\* the advanced variant has answered a text shorter than max_length, in which
\* the query does not occur, with the whole text and '...'
C11_Witness ==
    /\ x_op = "extract_content_snippet_advanced"
    /\ ~QueryOccurs
    /\ x_in.content.s # <<>> /\ Len(x_in.content.s) < x_in.max_length
    /\ x_out = JStr(x_in.content.s \o Dots)

\* the number of characters of s whose lowercase forms make up the first n
\* characters of s.lower()
OriginalLength(s, n) ==
    CHOOSE k \in 0..Len(s) :
        /\ Len(Lower(SubSeq(s, 1, k))) <= n
        /\ \A l \in (k + 1)..Len(s) : Len(Lower(SubSeq(s, 1, l))) > n

\* the first occurrence of the query, as it is written in the text: the
\* characters of the text whose lowercase forms are the first match of
\* query.lower() in text.lower()
FirstOccurrence ==
    LET pos == Find(Lower(x_in.content.s), Lower(x_in.query), 0)
    IN SubSeq(x_in.content.s, OriginalLength(x_in.content.s, pos) + 1,
              OriginalLength(x_in.content.s, pos + Len(Lower(x_in.query))))

\* C12 as stated: for every text, every query that occurs in it and every
\* max_length >= len(query), the snippet of extract_content_snippet contains
\* the complete first occurrence of the query.
C12_Original ==
    (x_op = "extract_content_snippet" /\ QueryOccurs /\ x_in.max_length >= Len(x_in.query)) =>
        (x_out.t = "str" /\ Contains(x_out.s, FirstOccurrence))

\* the text, its length and the position of the match
SnippetText == x_in.content.s
TextLen == Len(x_in.content.s)
MatchPos == Find(Lower(x_in.content.s), Lower(x_in.query), 0)

\* start and end of the window as the claim computes them
CenteredStart == Max2(0, MatchPos - (x_in.max_length \div 2))
ClaimedEnd == Min2(TextLen, CenteredStart + x_in.max_length)
ClaimedStart ==
    IF ClaimedEnd = TextLen THEN Max2(0, TextLen - x_in.max_length) ELSE CenteredStart

\* the answer is the excerpt text[a:b], with or without '...' on either side
IsExcerpt(a, b) ==
    /\ x_out.t = "str"
    /\ \E pre, post \in {<<>>, Dots} : x_out.s = pre \o PySlice(SnippetText, a, b) \o post

Unadjusted == Window(SnippetText, MatchPos, x_in.max_length)
Adjusted == WordAligned(SnippetText, Unadjusted)

\* the answer without its ellipsis and bold markers (no text of the model
\* holds '.' or '*')
IsTextChar(c) == c \notin {".", "*"}
WithoutMarkers == SelectSeq(x_out.s, IsTextChar)

\* C24 as stated: in extract_content_snippet_advanced the word boundary
\* adjustment moves start only forward and end only backward, each by at most
\* 20 characters, so that start <= end and the excerpt without markers is
\* never longer than max_length.
C24_AdjustmentShrinksWindow ==
    (x_op = "extract_content_snippet_advanced" /\ QueryOccurs /\ SnippetText # <<>>) =>
        /\ Unadjusted.start_pos <= Adjusted.start_pos
        /\ Adjusted.start_pos <= Unadjusted.start_pos + WordBudget
        /\ Adjusted.end_pos <= Unadjusted.end_pos
        /\ Unadjusted.end_pos - WordBudget <= Adjusted.end_pos
        /\ Adjusted.start_pos <= Adjusted.end_pos
        /\ Adjusted.end_pos - Adjusted.start_pos <= x_in.max_length
        /\ x_out.t = "str" /\ Len(WithoutMarkers) <= x_in.max_length

\* C25 as stated: for every text, every query that occurs in it and every
\* max_length >= len(query), the snippet of extract_content_snippet_advanced
\* contains the first occurrence of the query between '**' and '**'.
C25_FirstOccurrenceInBold ==
    (x_op = "extract_content_snippet_advanced" /\ QueryOccurs
        /\ x_in.max_length >= Len(x_in.query)) =>
        (x_out.t = "str" /\ Contains(x_out.s, Stars \o FirstOccurrence \o Stars))

\* the excerpt's positions in the text: the window, word-aligned in the
\* advanced variant
ExcerptAt == IF x_op = "extract_content_snippet" THEN Unadjusted ELSE Adjusted

\* the excerpt as it is shown: in the advanced variant with its matches in bold
ExcerptShown ==
    LET excerpt == PySlice(SnippetText, ExcerptAt.start_pos, ExcerptAt.end_pos)
    IN IF x_op = "extract_content_snippet" THEN excerpt ELSE Highlight(excerpt, x_in.query)

\* C26 as stated: when the query occurs in the text, the answer of either
\* snippet function begins with '...' exactly when the excerpt does not begin
\* at the first character of the text, and ends with '...' exactly when the
\* excerpt does not end at the last character of the text.
C26_EllipsisWhereCut ==
    (x_op \in SnippetOps /\ QueryOccurs /\ SnippetText # <<>>) =>
        x_out = JStr((IF ExcerptAt.start_pos > 0 THEN Dots ELSE <<>>)
                     \o ExcerptShown
                     \o (IF ExcerptAt.end_pos < TextLen THEN Dots ELSE <<>>))

-----------------------------------------------------------------------------
(* Specification of the search functions applied to one table and query *)

DoneB == <<"D", "o", "n", "e", " ", "b">>

\* the last title holds the character whose lowercase form is two characters long
SearchTitles == {<<"b">>, <<"A">>, DoneB, <<DottedCapitalI, "b">>}

\* what save_page stores: a start answer without run id, a payload with
\* content, a DONE payload with outputs
SearchData ==
    {JDict(<<>>),
     JDict(<<<<"content", JStr(<<"b">>)>>>>),
     JDict(<<<<"state", JStr(DONE)>>,
             <<"outputs", JDict(<<<<"output", JStr(<<"a", " ", "b">>)>>>>)>>>>)}

SearchPages == [title : SearchTitles, data : SearchData]

\* the table with one more page, saved under its own fallback id
StoredNext(rs, page) ==
    Insert(rs, SavedPage(JStr(page.title), JStr(PageUrl), page.data,
                         FallbackId(Len(rs) + 1, Len(rs) + 1)), Len(rs) + 1)

RECURSIVE Stored(_)
\* the table after the pages were saved one after the other
Stored(pages) ==
    IF pages = <<>> THEN <<>>
    ELSE StoredNext(Stored(SubSeq(pages, 1, Len(pages) - 1)), pages[Len(pages)])

\* the pages other threads save while a search waits for the LLM
CommittedPages ==
    {[title |-> <<"b">>, data |-> JDict(<<>>)],
     [title |-> <<"A">>, data |-> JDict(<<<<"content", JStr(<<"b">>)>>>>)]}

Corpora == {Stored(ps) : ps \in SeqsUpTo(SearchPages, MaxPages)}

SearchQueries ==
    {<<>>, <<"b">>, <<"a">>, <<"a", " ", "B">>, <<"d", "o", "n", "e", " ", "b">>,
     <<"z">>, <<"b", " ", "b">>, <<"z", "\t", "b">>, <<"z", "U+00A0", DottedCapitalI>>}

\* no request is being handled
NoRequest ==
    /\ reqs = 0
    /\ pc = "idle"
    /\ handler = "none"
    /\ data = JNull
    /\ start_response = NoAnswer
    /\ start_data = JNull
    /\ run_id = JNull
    /\ attempt = 0
    /\ result_data = JNull
    /\ final_state = JNull
    /\ got200 = FALSE
    /\ get_response = NoAnswer
    /\ last200 = JNull
    /\ sleeps = 0
    /\ startCalls = 0
    /\ rowsBefore = Len(rows)
    /\ response = NoResponse

InitSearch ==
    /\ rows \in Corpora
    /\ schema = CreatedSchema /\ NoMigration
    /\ now = MaxPages + 1
    /\ uuidCtr = MaxPages
    /\ apiKey = TRUE /\ savedItemCfg = TRUE
    /\ claude \in BOOLEAN
    /\ NoRequest
    /\ x_in \in [query : SearchQueries]
    /\ x_out = JNull
    /\ x_op = "none"
    /\ x_read = <<>>

\* op reads the table and returns out without a call to the LLM
Searched(op, out) ==
    /\ x_op = "none"
    /\ x_op' = op
    /\ x_out' = out
    /\ x_read' = rows
    /\ UNCHANGED <<x_in, appvars, dbvars>>

\* op has read the table and waits in claude_client.messages.create
Asks(op) ==
    /\ x_op = "none"
    /\ x_op' = "waiting"
    /\ x_out' = [kind |-> "call", op |-> op]
    /\ x_read' = rows
    /\ UNCHANGED <<x_in, appvars, dbvars>>

\* messages.create has returned or raised: op returns out, made of the rows
\* it read before the call
Answered(op, out) ==
    /\ x_op = "waiting" /\ x_out.op = op
    /\ x_op' = op
    /\ x_out' = out
    /\ UNCHANGED <<x_in, x_read, appvars, dbvars>>

\* while a search waits for the LLM, save_page commits a page in another
\* thread of the server
CommitDuringSearch(page) ==
    /\ x_op = "waiting"
    /\ Len(rows) < Len(x_read) + MaxCommits
    /\ rows' = StoredNext(rows, page)
    /\ UNCHANGED <<now, uuidCtr, apiKey, savedItemCfg, claude, reqs, pc, handler, data,
                   start_response, start_data, run_id, attempt, result_data, final_state,
                   got200, get_response, last200, sleeps, startCalls, rowsBefore, response,
                   dbvars, purevars>>

ConversationalSearch(llm) ==
    IF ConversationalCalls(rows, claude)
    THEN Asks("conversational_search")
    ELSE Searched("conversational_search",
                  conversational_search(x_in.query, rows, claude, llm))

ConversationalSearchReturns(llm) ==
    Answered("conversational_search", conversational_search(x_in.query, x_read, claude, llm))

SearchDatabase(dumped) ==
    Searched("search_database", search_database(x_in.query, rows, dumped))

AdvancedSearchDatabase(use_llm, llm) ==
    IF AdvancedCalls(x_in.query, use_llm, rows, claude)
    THEN Asks("advanced_search_database")
    ELSE Searched("advanced_search_database",
                  advanced_search_database(x_in.query, use_llm, rows, claude, llm))

AdvancedSearchDatabaseReturns(llm) ==
    Answered("advanced_search_database",
             advanced_search_database(x_in.query, TRUE, x_read, claude, llm))

SearchSecondbrain(dumped) ==
    Searched("search_secondbrain", search_secondbrain(x_in.query, rows, dumped))

SearchSecondbrainAdvanced(use_llm, llm) ==
    IF x_in.query # <<>> /\ AdvancedCalls(x_in.query, use_llm, rows, claude)
    THEN Asks("search_secondbrain_advanced")
    ELSE Searched("search_secondbrain_advanced",
                  search_secondbrain_advanced(x_in.query, use_llm, rows, claude, llm))

SearchSecondbrainAdvancedReturns(llm) ==
    Answered("search_secondbrain_advanced",
             search_secondbrain_advanced(x_in.query, TRUE, x_read, claude, llm))

ChatWithSecondbrain(llm) ==
    IF x_in.query # <<>> /\ ConversationalCalls(rows, claude)
    THEN Asks("chat_with_secondbrain")
    ELSE Searched("chat_with_secondbrain",
                  chat_with_secondbrain(x_in.query, rows, claude, llm))

ChatWithSecondbrainReturns(llm) ==
    Answered("chat_with_secondbrain", chat_with_secondbrain(x_in.query, x_read, claude, llm))

\* POST /api/mcp-search with {"query": ..., "conversational": ...}
McpSearchQuery(use_conversational, llm, dumped) ==
    IF use_conversational /\ ConversationalCalls(rows, claude)
    THEN Asks("mcp_search")
    ELSE Searched("mcp_search",
                  mcp_search(x_in.query, use_conversational, rows, claude, llm, dumped))

McpSearchQueryReturns(llm) ==
    Answered("mcp_search", mcp_search(x_in.query, TRUE, x_read, claude, llm, FALSE))

NextSearch ==
    \/ \E llm \in LlmOutcomes : ConversationalSearch(llm)
    \/ \E dumped \in BOOLEAN : SearchDatabase(dumped)
    \/ \E use_llm \in BOOLEAN, llm \in RankOutcomes : AdvancedSearchDatabase(use_llm, llm)
    \/ \E dumped \in BOOLEAN : SearchSecondbrain(dumped)
    \/ \E use_llm \in BOOLEAN, llm \in RankOutcomes : SearchSecondbrainAdvanced(use_llm, llm)
    \/ \E llm \in LlmOutcomes : ChatWithSecondbrain(llm)
    \/ \E conv \in BOOLEAN, llm \in LlmOutcomes, dumped \in BOOLEAN :
           McpSearchQuery(conv, llm, dumped)
    \/ \E llm \in LlmOutcomes : ConversationalSearchReturns(llm)
    \/ \E llm \in RankOutcomes : AdvancedSearchDatabaseReturns(llm)
    \/ \E llm \in RankOutcomes : SearchSecondbrainAdvancedReturns(llm)
    \/ \E llm \in LlmOutcomes : ChatWithSecondbrainReturns(llm)
    \/ \E llm \in LlmOutcomes : McpSearchQueryReturns(llm)
    \/ \E page \in CommittedPages : CommitDuringSearch(page)

SpecSearch == InitSearch /\ [][NextSearch]_vars

-----------------------------------------------------------------------------
(* Claims about the search functions *)

\* the words of the query, before the stopwords are dropped
QueryTokens == Split(Lower(x_in.query))

TitleHasAll(row) == \A i \in 1..Len(QueryTokens) : Contains(Lower(row.title.s), QueryTokens[i])
TitleHasNone(row) == \A i \in 1..Len(QueryTokens) : ~Contains(Lower(row.title.s), QueryTokens[i])
BodyHasAll(row) ==
    \A i \in 1..Len(QueryTokens) :
        Contains(Lower(extract_text_content(row.gumloop_data).s), QueryTokens[i])

ScoreOf(row) == KeywordScore(FormattedPage(row), filtered_query_words(x_in.query))

\* the position of page id in the context of the answer, 0 when it is not there
ContextPos(id) ==
    IF \E k \in 1..Len(x_out.context) : x_out.context[k].id = id
    THEN CHOOSE k \in 1..Len(x_out.context) : x_out.context[k].id = id
    ELSE 0

\* a pair of rows the function read: the title of the first holds every query token; the title
\* of the second holds none and its body holds all
TitleAgainstBody(i, j) ==
    /\ QueryTokens # <<>>
    /\ TitleHasAll(x_read[i])
    /\ TitleHasNone(x_read[j]) /\ BodyHasAll(x_read[j])

\* C13: in the keyword pre-filter of conversational_search, for every query
\* with at least one token, a page whose title contains all query tokens
\* scores strictly higher than a page whose title contains none and whose
\* body contains all of them, and so precedes it in the context sent to the LLM.
C13_TitleOutranksBody ==
    (x_op = "conversational_search" /\ claude) =>
        \A i, j \in 1..Len(x_read) :
            TitleAgainstBody(i, j) =>
                /\ ScoreOf(x_read[i]) > ScoreOf(x_read[j])
                /\ ScoreOf(x_read[i]) >= 3 * ScoreOf(x_read[j])
                /\ ContextPos(i) >= 1 /\ ContextPos(i) < ContextPos(j)

\* the page matched by its body was saved first and the page matched by its
\* title comes first in the context, for a query of two tokens
C13_Witness ==
    /\ x_op = "conversational_search" /\ claude
    /\ Len(QueryTokens) = 2
    /\ Len(x_read) = 2 /\ TitleAgainstBody(2, 1)
    /\ x_out.context[1].id = 2 /\ x_out.context[2].id = 1
    /\ x_out.context[1].score = 6 /\ x_out.context[2].score = 2

SearchFunctions == {"search_database", "advanced_search_database", "conversational_search"}

\* the item list and the message of the answer; a text answer has no items
AnswerItems == IF x_out.kind = "result" THEN x_out.items ELSE <<>>
AnswerMessage == IF x_out.kind = "result" THEN x_out.message ELSE Message(x_out.text, 0)

\* the messages that say that nothing is stored
NoContentMessages == {NoSavedPagesFound, Message(NoSavedPagesText, 0)}

\* the message the applied function gives for the same query over the empty table
EmptyCorpusMessage ==
    CASE x_op = "search_database" -> search_database(x_in.query, <<>>, FALSE).message
      [] x_op = "advanced_search_database" ->
           advanced_search_database(x_in.query, TRUE, <<>>, claude, "raises").message
      [] x_op = "conversational_search" ->
           Message(conversational_search(x_in.query, <<>>, claude, "answers").text, 0)

\* the table is not empty and nothing in it matches the query
ZeroMatches ==
    /\ x_read # <<>>
    /\ IF x_op = "conversational_search"
       THEN \A i \in 1..Len(x_read) : ScoreOf(x_read[i]) = 0
       ELSE x_out.items = <<>>

\* C14 as stated: for search_database, advanced_search_database and
\* conversational_search, a search over the empty table returns no item and a
\* message saying that nothing is stored, and that message differs from the
\* one returned when a non-empty table has no match for the query.
C14_EmptyCorpusSaysSo ==
    (x_op \in SearchFunctions /\ ~IsRaised(x_out)) =>
        /\ x_read = <<>> => (AnswerItems = <<>> /\ AnswerMessage \in NoContentMessages)
        /\ ZeroMatches => AnswerMessage # EmptyCorpusMessage

SearchEntryPoints ==
    {"mcp_search", "conversational_search", "search_secondbrain_advanced", "chat_with_secondbrain"}

UnavailableTexts == {ClaudeUnavailableText, LlmSearchUnavailableText, ChatUnavailableText}

\* the answer holds the items of a keyword search
HoldsKeywordResults ==
    IF x_op = "mcp_search"
    THEN x_out.status = "success" /\ "items" \in DOMAIN x_out.results
    ELSE /\ ~IsRaised(x_out)
         /\ x_out.text \notin UnavailableTexts \cup {SearchErrorText}
         /\ "items" \in DOMAIN x_out

\* C15 as stated: without an LLM client, the mcp_search endpoint,
\* conversational_search and the tools search_secondbrain_advanced and
\* chat_with_secondbrain answer a query with keyword search results, never
\* with an error or an 'unavailable' message.
C15_FallsBackToKeywordSearch ==
    (~claude /\ x_op \in SearchEntryPoints /\ x_in.query # <<>>) => HoldsKeywordResults

-----------------------------------------------------------------------------
(* Specification of the keyword pre-filter applied to a large table *)

\* one or two kinds of page, repeated in turn
RankPatterns == {p \in SeqsUpTo(SearchPages, 2) : p # <<>>}

\* the table of n pages saved after the pattern
Periodic(pattern, n) == Stored([i \in 1..n |-> pattern[((i - 1) % Len(pattern)) + 1]])

RankCorpora == {Periodic(p, n) : p \in RankPatterns, n \in 0..MaxRanked}

RankQueries == {<<"b">>, <<"d", "o", "n", "e", " ", "b">>, <<"z">>}

InitRank ==
    /\ rows \in RankCorpora
    /\ schema = CreatedSchema /\ NoMigration
    /\ now = MaxRanked + 1
    /\ uuidCtr = MaxRanked
    /\ apiKey = TRUE /\ savedItemCfg = TRUE
    /\ claude = TRUE
    /\ NoRequest
    /\ x_in \in [query : RankQueries]
    /\ x_out = JNull
    /\ x_op = "none"
    /\ x_read = <<>>

NextRank ==
    \/ \E llm \in LlmOutcomes : ConversationalSearch(llm)
    \/ \E llm \in LlmOutcomes : ConversationalSearchReturns(llm)
    \/ \E page \in CommittedPages : CommitDuringSearch(page)

SpecRank == InitRank /\ [][NextRank]_vars

-----------------------------------------------------------------------------
(* Claims about the candidate list *)

\* the rows read that have a positive score
Positive == {i \in 1..Len(x_read) : ScoreOf(x_read[i]) > 0}

\* the candidate list of the answer and the rows in it
Candidates == x_out.context
CandidateIds == {Candidates[k].id : k \in 1..Len(Candidates)}

\* C27: when at least one page scores above zero, the candidate list of
\* conversational_search holds only pages with a positive score, each once
\* and with its score, in the order of non-increasing score; it has at most
\* 15 entries, and every page with a positive score that is left out scores
\* no higher than every page in the list.
C27_CandidatesAreTopScores ==
    (x_op = "conversational_search" /\ Positive # {}) =>
        /\ CandidateIds \subseteq Positive
        /\ \A k \in 1..Len(Candidates) :
              Candidates[k].score = ScoreOf(x_read[Candidates[k].id])
        /\ \A k, l \in 1..Len(Candidates) : k < l =>
              /\ Candidates[k].id # Candidates[l].id
              /\ Candidates[k].score >= Candidates[l].score
        /\ Len(Candidates) <= 15
        /\ Len(Candidates) = Min2(Cardinality(Positive), 15)
        /\ \A i \in Positive \ CandidateIds : \A k \in 1..Len(Candidates) :
              ScoreOf(x_read[i]) <= Candidates[k].score

\* seventeen pages match, fifteen are kept: the list begins with a higher
\* score than it ends with, and a page left out scores as the last one kept
C27_Witness ==
    /\ x_op = "conversational_search"
    /\ Cardinality(Positive) = 17
    /\ Len(Candidates) = 15
    /\ Candidates[1].score > Candidates[15].score
    /\ \E i \in Positive \ CandidateIds : ScoreOf(x_read[i]) = Candidates[15].score

-----------------------------------------------------------------------------
(* Specification of the search view of the web UI, applied to one request *)

\* the application create_app builds: the keys it sets in app.config
create_app ==
    [config |-> {"SQLALCHEMY_DATABASE_URI", "SQLALCHEMY_TRACK_MODIFICATIONS",
                 "fetch_gumloop_extraction"}]

\* the key under which the view looks the search function up
SearchFunctionKey == "mcp_conversational_search"

RECURSIVE lstrip(_)
lstrip(s) == IF s # <<>> /\ Head(s) \in Whitespace THEN lstrip(Tail(s)) ELSE s

RECURSIVE rstrip(_)
rstrip(s) == IF s # <<>> /\ s[Len(s)] \in Whitespace THEN rstrip(SubSeq(s, 1, Len(s) - 1)) ELSE s

\* str.strip()
strip(s) == rstrip(lstrip(s))

\* request.form.get('query', '').strip(); field: the form field, JNull when
\* the form has none
FormQuery(field) == strip(IF field = JNull THEN <<>> ELSE field.s)

NotAvailableText == "Search functionality not available"
NoResponseText == "No response available"
UnexpectedFormatText == "Received a response in an unexpected format"

\* the results object made of the answer of the search function: a string,
\* a dict (a function of its keys), any other value, or an exception
FormatAnswer(answer) ==
    IF answer.kind = "raise"
    THEN [error |-> <<"Search failed: ", answer.exc>>, items |-> <<>>]
    ELSE IF answer.kind = "str"
    THEN [conversational_response |-> answer.text, items |-> <<>>]
    ELSE IF answer.kind = "dict"
    THEN LET d == answer.d
         IN IF "conversational_response" \in DOMAIN d
            THEN [k \in DOMAIN d \cup {"items"} |->
                     IF k \in DOMAIN d THEN d[k] ELSE <<>>]
            ELSE [conversational_response |->
                     IF "message" \in DOMAIN d THEN d["message"] ELSE NoResponseText,
                  items |-> IF "items" \in DOMAIN d THEN d["items"] ELSE <<>>]
    ELSE [conversational_response |-> UnexpectedFormatText, items |-> <<>>]

\* render_template('search.html', query=query, results=results)
Rendered(query, results) == [template |-> "search.html", query |-> query, results |-> results]

\* views.search on an application with the given config; answer: what the
\* search function does when it is called
search(method, field, config, answer) ==
    IF method # "POST" THEN Rendered(JNull, JNull)
    ELSE LET query == FormQuery(field)
         IN IF query = <<>> THEN Rendered(JStr(query), JNull)
            ELSE IF SearchFunctionKey \in config
            THEN Rendered(JStr(query), FormatAnswer(answer))
            ELSE Rendered(JStr(query), [error |-> NotAvailableText, items |-> <<>>])

\* the blank, the tab, a whitespace character beyond ASCII (the em space) and
\* two letters
FormChars == {" ", "\t", "U+2003", "a", "b"}

WebRequests ==
    [method : {"GET", "POST"},
     field : {JNull} \cup {JStr(t) : t \in SeqsUpTo(FormChars, MaxText)}]

AnswerKeys == {"conversational_response", "message", "items"}

AnswerValue(k) == IF k = "items" THEN <<"page">> ELSE LlmText

SearchAnswers ==
    {[kind |-> "raise", exc |-> "Exception"], [kind |-> "str", text |-> LlmText],
     [kind |-> "other"]}
    \cup {[kind |-> "dict", d |-> [k \in ks |-> AnswerValue(k)]] : ks \in SUBSET AnswerKeys}

InitWeb ==
    /\ AppInit /\ apiKey /\ savedItemCfg /\ claude
    /\ x_in \in WebRequests
    /\ x_out = JNull
    /\ x_op = "none"
    /\ x_read = <<>>

\* GET or POST /search served by the application create_app built
SearchView(answer) ==
    /\ x_op = "none"
    /\ x_out' = search(x_in.method, x_in.field, create_app.config, answer)
    /\ x_op' = "search"
    /\ UNCHANGED <<x_in, x_read, appvars, dbvars>>

NextWeb == \E answer \in SearchAnswers : SearchView(answer)

SpecWeb == InitWeb /\ [][NextWeb]_vars

-----------------------------------------------------------------------------
(* Claims about the search view *)

\* a POST whose query is not empty once stripped has been served
SearchedNonEmpty ==
    /\ x_op = "search"
    /\ x_in.method = "POST"
    /\ FormQuery(x_in.field) # <<>>

\* the results object is one made of an answer of the search function
RendersAnAnswer == \E answer \in SearchAnswers : x_out.results = FormatAnswer(answer)

\* C30: a search POST of the web UI with a non-empty query calls the search
\* function registered in the configuration of the application and renders
\* its answer: on the application create_app builds the function is
\* registered, the result is not 'Search functionality not available', and
\* the results object has a list of items.
C30_SearchFunctionRegistered ==
    SearchedNonEmpty =>
        /\ SearchFunctionKey \in create_app.config
        /\ RendersAnAnswer
        /\ x_out.results # [error |-> NotAvailableText, items |-> <<>>]
        /\ "items" \in DOMAIN x_out.results

\* what the application does instead: every such POST is answered with the
\* 'not available' result
C30_AlwaysNotAvailable ==
    SearchedNonEmpty =>
        x_out = Rendered(JStr(FormQuery(x_in.field)),
                         [error |-> NotAvailableText, items |-> <<>>])

\* a query with blanks around it has been searched for
C30_Witness ==
    /\ SearchedNonEmpty
    /\ x_in.field = JStr(<<" ", "b", " ">>)
    /\ x_out.query = JStr(<<"b">>)

====
